---- MODULE Spec2Model ----
(***************************************************************************)
(* Bid synchronisation engine of Arbitra-2.                                *)
(*                                                                         *)
(* Each subsystem is modelled with its own specification:                  *)
(*   Spec      the BidManager operation queue (addToQueue / #processQueue, *)
(*             submitBid, cancelBid) on top of the BidStorage ledger;      *)
(*             SpecLedger adds the cleanup timer and the clock,            *)
(*             SpecReload the loadBids of a later run of the process;      *)
(*   SpecPoll  the live Blur bidder: startup population and the            *)
(*             setInterval polling loop over the shared store;             *)
(*   SpecCalc  the bid calculators applied to bounded sets of prices;      *)
(*   SpecTasks the TaskManager: addTask and the processTasks loop;         *)
(*   SpecMonitor the OpenSea offer monitor: its polling loop and its       *)
(*             order_invalidate handler, one step per await;               *)
(*   SpecSocket the offer monitor's WebSocket connection and heartbeat;    *)
(*             SpecConverge is the monitor's polling loop under fairness;  *)
(*   SpecTerminating the operation queue when every I/O request returns;   *)
(*   SpecAcceptor the Blur acceptor's quote / accept retry loop;           *)
(*   SpecStorage BidStorage's addBid, updateBid and removeBid called       *)
(*             directly.                                                   *)
(* One step of the model is one turn of the JavaScript event loop: a call  *)
(* or the completion of one I/O request, together with every continuation  *)
(* that runs before the next I/O completion can be delivered (promise      *)
(* continuations are microtasks: no timer or I/O callback runs in between).*)
(* A second call made in the same turn as the first only pushes onto the   *)
(* queue (the flag is already set), which commutes with the continuations. *)
(***************************************************************************)
EXTENDS Integers, Sequences, FiniteSets, Bags, TLC

(* ------------------------------ bounds -------------------------------- *)

\* number of submitBid / cancelBid calls made by the callers
MaxCalls == 3
\* number of clock advances (one unit = one bid lifetime, 86400 s)
MaxTime == 1
\* number of submitBid / cancelBid calls made while the cleanup timer and the
\* clock run
MaxLedgerCalls == 2
\* number of setInterval callbacks that fire
MaxTicks == 2
\* number of writes the upstream monitors make to the offer keys
MaxWrites == 2
\* number of poll callbacks of the offer monitor that fire
MaxPolls == 2
\* number of messages the offer monitor receives
MaxEvents == 2
\* number of changes of a collection's top offer at the marketplace
MaxChanges == 1
\* number of WebSockets the offer monitor makes
MaxSockets == 3
\* number of heartbeat messages sent
MaxBeats == 2
\* number of addTask calls
MaxTasks == 3
\* number of milliseconds that pass while TaskManager runs
MaxMs == 1
\* number of direct calls of addBid, updateBid and removeBid
MaxStorageCalls == 3
\* number of matching NFTs the acceptor finds in the wallet
MaxNfts == 2
\* number of attempts the acceptor makes for one NFT
MaxAttempts == 3

(* ------------------------- program constants -------------------------- *)

\* NftBid.calculateExpirationTime: now + 86400 s, one clock unit
ExpirySpan == 1
\* config.bid.<platform>.minBidAmount / maxBidAmount, in units of 0.01 ETH
MinBidAmount == 1
MaxBidAmount == 10000

Collections == {"c1"}
Platforms == {"blur", "opensea"}
\* amounts the callers pass to submitBid, in units of 0.01 ETH (0 is invalid)
Amounts == {0, 1, 2}

\* data/bids.json does not exist; otherwise the file is <<content>>
NoFile == <<>>
\* no saveBids in progress; otherwise the data being written is <<content>>
NoSnapshot == <<>>

VARIABLES
    bidQueue,         \* BidManager.#bidQueue: call ids of the queued operations
    processingQueue,  \* BidManager.#processingQueue
    calls,            \* the submitBid / cancelBid calls so far, in call order
    bids,             \* BidStorage.bids: collection -> {blur: [], opensea: []}
    storageFile,      \* content of data/bids.json
    cleanupSnap,      \* data of a saveBids started by cleanupExpiredBids
    now,              \* Math.floor(Date.now() / 1000), in clock units
    openSubmit,       \* history: a submit for the key succeeded, no cancel since
    doubleSubmit,     \* history: a submit was sent for a key with openSubmit
    startOrder        \* history: call ids in the order their operations started

qvars == <<bidQueue, processingQueue, calls, bids, storageFile, cleanupSnap,
           now, openSubmit, doubleSubmit, startOrder>>

\* the live Blur bidder
VARIABLES
    store,            \* shared store: <<market, contract>> -> raw value of the
                      \*   key c-offer:opensea:<c> / c-offer:blur:collection:<c>
    bidKey,           \* shared store: contract -> value of Bid:Blur:<contract>
    lastSeen,         \* lastSeenOpenSea / lastSeenBlur: <<market, contract>> -> string
    main,             \* main(): where the initial population has got to
    ticks,            \* the setInterval callbacks in progress (a bag: the
                      \*   callbacks are interchangeable)
    fired,            \* number of setInterval callbacks fired so far
    writes,           \* number of writes the upstream monitors have made
    lastRead,         \* history: <<market, contract>> -> raw value of the last read
    lastNonEmpty,     \* history: the same, over the non-empty reads only
    obs               \* history: the read of an offer key made in the latest
                      \*   step, if any: how its raw value compares with the
                      \*   previous read of the key, and whether it called
                      \*   processFromOpenSea / processFromBlur

pvars == <<store, bidKey, lastSeen, main, ticks, fired, writes, lastRead,
           lastNonEmpty, obs>>

\* the bid calculators, applied to one set of inputs
VARIABLES
    inBlurBid,        \* computeBidAmount's blurBid, in units of 0.000001 ETH
    inOsBid,          \* computeBidAmount's osBid, in units of 0.000001 ETH
    inPrice,          \* the observed price given to calculateBidWithMargin and
                      \*   calculateBlurAmount, in units of 0.001 ETH
    calcResult        \* the calculator applied and what it returned or threw

cvars == <<inBlurBid, inOsBid, inPrice, calcResult>>

\* a later run of the program
VARIABLES
    reloaded          \* BidStorage.initialize in a new process: the ledger the
                      \*   file was saved from and the ledger loadBids built

rvars == <<reloaded>>

\* TaskManager
VARIABLES
    heap,             \* the task objects created by addTask, in call order
    tasks,            \* TaskManager.tasks: the Map as its entries in insertion
                      \*   order, each an id and a reference into heap
    running,          \* TaskManager.running
    loop,             \* processTasks: "none" (not called), "exec" (awaiting
                      \*   executeTask), "sleep" (awaiting the 100 ms timer) or
                      \*   "stopped" (the while loop has ended)
    current,          \* the task executeTask is working on: <<>> or <<ref>>
    msNow             \* Date.now(), in milliseconds

tvars == <<heap, tasks, running, loop, current, msNow>>

\* the OpenSea offer monitor
VARIABLES
    offerKey,         \* shared store: slug -> value of c-offer:opensea:<contract>
    topOffer,         \* OpenSea: slug -> order_hash of the collection's top
                      \*   offer, or NoOffer
    polls,            \* the setInterval callbacks in progress (a bag)
    handlers,         \* the ws.on('message') handlers in progress (a bag)
    polled,           \* number of setInterval callbacks fired so far
    events,           \* number of messages received so far
    changes,          \* number of changes of the market's top offers so far
    mobs,             \* history: what the latest step of a callback or a
                      \*   handler did with the store
    sockets,          \* the WebSockets made by connectWebSocket, in order
    reconnects,       \* number of pending setTimeout(connectWebSocket)
    beats             \* number of heartbeat messages sent so far

mvars == <<offerKey, topOffer, polls, handlers, polled, events, changes, mobs,
           sockets, reconnects, beats>>

\* the Blur acceptor
VARIABLES
    acceptor          \* the main function of A5-Blur-Acceptor: the matching
                      \*   NFTs, the loop index, the await it is at, the
                      \*   attempt counter, the quote held, and what the
                      \*   latest step did

avars == <<acceptor>>

\* BidStorage called directly
VARIABLES
    storage           \* the addBid / updateBid / removeBid calls: how many
                      \*   were made, the saveBids in progress (each with the
                      \*   data it writes), and what the latest step did

svars == <<storage>>

\* the subsystems other than the queue, the bidder and the calculators
xvars == <<rvars, tvars, mvars, avars, svars>>

vars == <<qvars, pvars, cvars, xvars>>

(* ------------------------------ NftBid -------------------------------- *)

\* new NftBid({collection, platform, amount}) at time t; nonce stands for the
\* 32 random bytes of generateNonce
NftBid(collection, platform, amount, nonce, t) ==
    [collection |-> collection, platform |-> platform, amount |-> amount,
     nonce |-> nonce, expirationTime |-> t + ExpirySpan, createdAt |-> t,
     status |-> "pending"]

\* NftBid.validate() at time t returns true (it throws otherwise)
IgnoreExpiry(bid, t) ==
    /\ bid.collection \in Collections
    /\ bid.platform \in Platforms
    /\ bid.amount > 0
    /\ ~(bid.amount < MinBidAmount \/ bid.amount > MaxBidAmount)
Validate(bid, t) ==
    /\ bid.collection \in Collections
    /\ bid.platform \in Platforms
    /\ bid.amount > 0
    /\ ~(bid.amount < MinBidAmount \/ bid.amount > MaxBidAmount)
    /\ ~(bid.expirationTime <= t)

\* NftBid.toJSON followed by JSON.stringify / JSON.parse (tokenId and
\* signature are null in every bid the program creates)
ToJSON(bid) ==
    [collection |-> bid.collection, platform |-> bid.platform,
     amount |-> bid.amount, expirationTime |-> bid.expirationTime,
     nonce |-> bid.nonce, createdAt |-> bid.createdAt, status |-> bid.status]

\* NftBid.fromJSON(data) at time t: "new NftBid(data)", which takes
\* collection, platform, amount, expirationTime and nonce from data
FromJSON(data, t) ==
    [NftBid(data.collection, data.platform, data.amount, data.nonce, t)
        EXCEPT !.expirationTime = data.expirationTime]

(* ----------------------------- BidStorage ----------------------------- *)

\* Map.set(k, v)
MapSet(m, k, v) == [x \in DOMAIN m \cup {k} |-> IF x = k THEN v ELSE m[x]]

\* the result of a synchronous part that threw; otherwise it is <<map>>
Throw == <<>>

EmptyPlatforms == [blur |-> <<>>, opensea |-> <<>>]

GetBids(m, collection, platform) ==
    IF collection \notin DOMAIN m THEN <<>> ELSE m[collection][platform]

GetActiveBids(m, collection, platform, t) ==
    LET IsActive(b) == b.status = "active" /\ b.expirationTime > t
    IN  SelectSeq(GetBids(m, collection, platform), IsActive)

\* the in-memory map after addBid's push
Pushed(m, bid) ==
    LET cur == IF bid.collection \notin DOMAIN m THEN EmptyPlatforms
               ELSE m[bid.collection]
    IN  MapSet(m, bid.collection, [cur EXCEPT ![bid.platform] = Append(@, bid)])

\* Array.findIndex(b => b.nonce === nonce), 1-based; 0 stands for -1
FindIndex(s, nonce) ==
    IF \E k \in 1..Len(s) : s[k].nonce = nonce
    THEN CHOOSE k \in 1..Len(s) :
            /\ s[k].nonce = nonce
            /\ \A j \in 1..(k - 1) : s[j].nonce # nonce
    ELSE 0

Splice(s, k) == [j \in 1..(Len(s) - 1) |-> IF j < k THEN s[j] ELSE s[j + 1]]

\* removeBid's synchronous part: Throw, or <<the map with the bid spliced out>>
Removed(m, collection, platform, nonce) ==
    IF collection \notin DOMAIN m THEN Throw
    ELSE LET k == FindIndex(m[collection][platform], nonce)
         IN  IF k = 0 THEN Throw
             ELSE <<[m EXCEPT ![collection][platform] = Splice(@, k)]>>

\* cleanupExpiredBids' filter of one platform list
KeepActiveOnly(s, t) ==
    LET Keep(b) == b.expirationTime > t /\ b.status = "active"
    IN  SelectSeq(s, Keep)
KeepUnexpired(s, t) ==
    LET Keep(b) == b.expirationTime > t /\ b.status # "cancelled"
    IN  SelectSeq(s, Keep)

Cleaned(m, t) ==
    [c \in DOMAIN m |-> [p \in Platforms |-> KeepUnexpired(m[c][p], t)]]

AnyCleaned(m, t) ==
    \E c \in DOMAIN m, p \in Platforms :
        Len(KeepUnexpired(m[c][p], t)) < Len(m[c][p])

(* ------------------------- the operation queue ------------------------ *)

CallIds == 1..Len(calls)

\* addToQueue: "if (!this.#processingQueue) await this.#processQueue()"
AlwaysStartDrain == TRUE
ShouldStartDrain == ~processingQueue

\* #processQueue: "const operation = this.#bidQueue.shift()"
TakeLast(q) == [op |-> q[Len(q)], rest |-> SubSeq(q, 1, Len(q) - 1)]
Shift(q) == [op |-> Head(q), rest |-> Tail(q)]

\* #processQueue: "try { await operation(); } catch (error) { logger.error }"
ErrorEscapes == FALSE
ErrorCaught == TRUE

KeyOf(c) == <<c.collection, c.platform>>

\* The state the queue code works on, as one record.
QState ==
    [queue |-> bidQueue, flag |-> processingQueue, calls |-> calls,
     bids |-> bids, open |-> openSubmit, dbl |-> doubleSubmit,
     order |-> startOrder]

Settle(st, id, outcome) ==
    [st EXCEPT !.calls[id].opState = outcome, !.calls[id].pc = "none",
               !.calls[id].snap = NoSnapshot]

\* submitBid's operation from its first line to its first I/O await:
\* <<state, "suspended" | "completed" | "failed">>
SubmitOperation(st, id, t) ==
    LET c == st.calls[id]
        existing == GetActiveBids(st.bids, c.collection, c.platform, t)
        k == FindIndex(st.bids[c.collection][c.platform], existing[1].nonce)
        mutated == [st.bids EXCEPT ![c.collection][c.platform][k].amount = c.amount]
    IN  IF Len(existing) > 0
        THEN IF existing[1].amount = c.amount
             THEN <<st, "completed">>
             ELSE IF Validate(mutated[c.collection][c.platform][k], t)
                  THEN <<[st EXCEPT !.bids = mutated, !.calls[id].pc = "save",
                                    !.calls[id].snap = <<mutated>>], "suspended">>
                  ELSE <<[st EXCEPT !.bids = mutated], "failed">>
        ELSE <<[st EXCEPT !.calls[id].pc = "platform",
                          !.dbl = @ \/ st.open[KeyOf(c)]], "suspended">>

\* cancelBid's operation from its first line to its first I/O await
\* (cancelBlurBid and cancelOpenseaBid are empty)
CancelOperation(st, id) ==
    LET c == st.calls[id]
        rem == Removed(st.bids, c.collection, c.platform, c.nonce)
        st1 == [st EXCEPT !.open[KeyOf(c)] = FALSE]
    IN  IF rem = Throw
        THEN <<st1, "failed">>
        ELSE <<[st1 EXCEPT !.bids = rem[1], !.calls[id].pc = "save",
                           !.calls[id].snap = rem], "suspended">>

RECURSIVE ProcessQueue(_, _, _)
\* #processQueue after "await operation()" has settled with `outcome`: the
\* catch, then the recursive call
AfterOperation(st, id, outcome, t) ==
    LET drainer == st.calls[id].drainer
        st1 == Settle(st, id, outcome)
    IN  IF outcome = "failed" /\ ~ErrorCaught
        THEN [st1 EXCEPT !.calls[drainer].promise = "rejected"]
        ELSE ProcessQueue(st1, drainer, t)

\* #processQueue from its first line, for the drain that the addToQueue of
\* call `drainer` awaits, up to the next I/O await
ProcessQueue(st, drainer, t) ==
    IF Len(st.queue) = 0
    THEN [st EXCEPT !.flag = FALSE, !.calls[drainer].promise = "resolved"]
    ELSE LET s == Shift(st.queue)
             id == s.op
             st1 == [st EXCEPT !.queue = s.rest, !.flag = TRUE,
                               !.order = Append(@, id),
                               !.calls[id].opState = "running",
                               !.calls[id].drainer = drainer]
             r == IF st.calls[id].type = "submit"
                  THEN SubmitOperation(st1, id, t)
                  ELSE CancelOperation(st1, id)
         IN  IF r[2] = "suspended" THEN r[1]
             ELSE AfterOperation(r[1], id, r[2], t)

Apply(st) ==
    /\ bidQueue' = st.queue
    /\ processingQueue' = st.flag
    /\ calls' = st.calls
    /\ bids' = st.bids
    /\ openSubmit' = st.open
    /\ doubleSubmit' = st.dbl
    /\ startOrder' = st.order

\* addToQueue(operation) for the new call record c
AddToQueue(c) ==
    LET id == Len(calls) + 1
        st == [QState EXCEPT !.queue = Append(@, id)]
    IN  IF ShouldStartDrain
        THEN Apply(ProcessQueue(
                [st EXCEPT !.calls = Append(@, [c EXCEPT !.promise = "draining"])],
                id, now))
        ELSE Apply([st EXCEPT !.calls = Append(@, [c EXCEPT !.promise = "resolved"])])

NewCall(type, platform, collection, amount, nonce) ==
    [type |-> type, platform |-> platform, collection |-> collection,
     amount |-> amount, nonce |-> nonce, opState |-> "queued", pc |-> "none",
     drainer |-> 0, promise |-> "pending", snap |-> NoSnapshot]

\* BidManager.submitBid(platform, collection, amount); the bid the operation
\* creates gets the call id as its (fresh) nonce
SubmitBid(platform, collection, amount) ==
    /\ Len(calls) < MaxCalls
    /\ AddToQueue(NewCall("submit", platform, collection, amount, Len(calls) + 1))
    /\ UNCHANGED <<storageFile, cleanupSnap, now>>
    /\ UNCHANGED <<pvars, cvars, xvars>>

\* BidManager.cancelBid(platform, collection, nonce)
CancelBid(platform, collection, nonce) ==
    /\ Len(calls) < MaxCalls
    /\ AddToQueue(NewCall("cancel", platform, collection, 0, nonce))
    /\ UNCHANGED <<storageFile, cleanupSnap, now>>
    /\ UNCHANGED <<pvars, cvars, xvars>>

\* submitPlatformBid returns to submitBid's operation: it throws, or the
\* operation goes on to BidStorage.addBid up to the await of saveBids
PlatformReturn(id, ok) ==
    LET c == calls[id]
        bid == NftBid(c.collection, c.platform, c.amount, c.nonce, now)
        st == QState
    IN  /\ c.opState = "running" /\ c.pc = "platform"
        /\ IF ok /\ Validate(bid, now)
           THEN Apply([st EXCEPT !.bids = Pushed(bids, bid),
                                 !.calls[id].pc = "save",
                                 !.calls[id].snap = <<Pushed(bids, bid)>>])
           ELSE Apply(AfterOperation(st, id, "failed", now))
        /\ UNCHANGED <<storageFile, cleanupSnap, now>>
        /\ UNCHANGED <<pvars, cvars, xvars>>

\* saveBids' writeFile returns to the operation of call id
SaveReturn(id, ok) ==
    /\ calls[id].opState = "running" /\ calls[id].pc = "save"
    /\ storageFile' = IF ok THEN calls[id].snap ELSE storageFile
    /\ Apply(AfterOperation(
          [QState EXCEPT !.open[KeyOf(calls[id])] =
                            IF calls[id].type = "submit" THEN @ \/ ok ELSE @],
          id, IF ok THEN "completed" ELSE "failed", now))
    /\ UNCHANGED <<cleanupSnap, now>>
    /\ UNCHANGED <<pvars, cvars, xvars>>

\* BidStorage.cleanupExpiredBids, fired by startCleanupInterval's timer
CleanupExpiredBids ==
    /\ cleanupSnap = NoSnapshot
    /\ AnyCleaned(bids, now)
    /\ bids' = Cleaned(bids, now)
    /\ cleanupSnap' = <<Cleaned(bids, now)>>
    /\ UNCHANGED <<bidQueue, processingQueue, calls, storageFile, now,
                   openSubmit, doubleSubmit, startOrder>>
    /\ UNCHANGED <<pvars, cvars, xvars>>

\* saveBids' writeFile returns to cleanupExpiredBids
CleanupSaveReturn(ok) ==
    /\ cleanupSnap # NoSnapshot
    /\ storageFile' = IF ok THEN cleanupSnap ELSE storageFile
    /\ cleanupSnap' = NoSnapshot
    /\ UNCHANGED <<bidQueue, processingQueue, calls, bids, now,
                   openSubmit, doubleSubmit, startOrder>>
    /\ UNCHANGED <<pvars, cvars, xvars>>

\* the clock advances
Tick ==
    /\ now < MaxTime
    /\ now' = now + 1
    /\ UNCHANGED <<bidQueue, processingQueue, calls, bids, storageFile,
                   cleanupSnap, openSubmit, doubleSubmit, startOrder>>
    /\ UNCHANGED <<pvars, cvars, xvars>>

(* --------------------------- a later run ------------------------------ *)

\* no new process has loaded the file
NoReload == <<>>

\* saveBids' "data": every bid of the map through toJSON
SavedData(m) ==
    [c \in DOMAIN m |->
        [p \in Platforms |-> [k \in 1..Len(m[c][p]) |-> ToJSON(m[c][p][k])]]]

\* loadBids' map built from the parsed file at time t
LoadedBids(data, t) ==
    [c \in DOMAIN data |->
        [p \in Platforms |->
            [k \in 1..Len(data[c][p]) |-> FromJSON(data[c][p][k], t)]]]

\* BidStorage.initialize in a new process, once the first one has saved the
\* ledger: loadBids reads and parses data/bids.json
LoadBids ==
    /\ storageFile # NoFile
    /\ reloaded = NoReload
    /\ \A i \in CallIds : calls[i].opState \in {"completed", "failed"}
    /\ reloaded' = <<[saved |-> storageFile[1],
                      loaded |-> LoadedBids(SavedData(storageFile[1]), now)]>>
    /\ UNCHANGED <<qvars, pvars, cvars>>
    /\ UNCHANGED <<tvars, mvars, avars, svars>>

RIdle == reloaded = NoReload

(* ---------------------- BidStorage called directly -------------------- *)

\* the bids passed to addBid and updateBid: collection, platform and amount
\* as given to "new NftBid"; "bad" is no address, "x" is no platform, 0 is
\* not positive and MaxBidAmount + 1 is above the platform's maximum
BidInputs ==
    { <<"c1", "blur", 1>>, <<"c1", "opensea", 2>>, <<"bad", "blur", 1>>,
      <<"c1", "x", 1>>, <<"c1", "blur", 0>>, <<"c1", "blur", MaxBidAmount + 1>> }

\* what a step of a direct call did
Did(method, event, bid) == [method |-> method, event |-> event, bid |-> bid]

\* "await this.saveBids()" begins: data is built from the map at once
SaveBids(method, m) ==
    [storage EXCEPT !.n = @ + 1,
                    !.saves = Append(@, [method |-> method, data |-> m])]

\* BidStorage.addBid(bid) up to the await of saveBids, for a bid made at time t0
AddBid(in, t0) ==
    LET bid == NftBid(in[1], in[2], in[3], storage.n + 1, t0)
    IN  /\ storage.n < MaxStorageCalls
        /\ t0 \in 0..now
        /\ IF Validate(bid, now)
           THEN /\ bids' = Pushed(bids, bid)
                /\ storage' = [SaveBids("addBid", Pushed(bids, bid))
                                  EXCEPT !.last = Did("addBid", "saving", <<bid>>)]
           ELSE /\ bids' = bids
                /\ storage' = [storage EXCEPT !.n = @ + 1,
                                  !.last = Did("addBid", "threw", <<bid>>)]
        /\ UNCHANGED <<bidQueue, processingQueue, calls, storageFile, cleanupSnap,
                       now, openSubmit, doubleSubmit, startOrder>>
        /\ UNCHANGED <<pvars, cvars, rvars, tvars, mvars, avars>>

\* updateBid's "platformBids[index] = bid"
Assigned(m, bid, k) == [m EXCEPT ![bid.collection][bid.platform][k] = bid]

\* BidStorage.updateBid(bid) up to the await of saveBids, for a bid object
\* made now with the given nonce
UpdateBid(in, nonce) ==
    LET bid == NftBid(in[1], in[2], in[3], nonce, now)
        k == FindIndex(bids[bid.collection][bid.platform], nonce)
        found == /\ Validate(bid, now)
                 /\ bid.collection \in DOMAIN bids
                 /\ k # 0
    IN  /\ storage.n < MaxStorageCalls
        /\ IF found
           THEN /\ bids' = Assigned(bids, bid, k)
                /\ storage' = [SaveBids("updateBid", Assigned(bids, bid, k))
                                  EXCEPT !.last = Did("updateBid", "saving", <<bid>>)]
           ELSE /\ bids' = bids
                /\ storage' = [storage EXCEPT !.n = @ + 1,
                                  !.last = Did("updateBid", "threw", <<bid>>)]
        /\ UNCHANGED <<bidQueue, processingQueue, calls, storageFile, cleanupSnap,
                       now, openSubmit, doubleSubmit, startOrder>>
        /\ UNCHANGED <<pvars, cvars, rvars, tvars, mvars, avars>>

\* BidStorage.removeBid(collection, platform, nonce) up to the await of
\* saveBids
RemoveBid(collection, platform, nonce) ==
    LET rem == Removed(bids, collection, platform, nonce)
    IN  /\ storage.n < MaxStorageCalls
        /\ IF rem # Throw
           THEN /\ bids' = rem[1]
                /\ storage' = [SaveBids("removeBid", rem[1])
                                  EXCEPT !.last = Did("removeBid", "saving", <<>>)]
           ELSE /\ bids' = bids
                /\ storage' = [storage EXCEPT !.n = @ + 1,
                                  !.last = Did("removeBid", "threw", <<>>)]
        /\ UNCHANGED <<bidQueue, processingQueue, calls, storageFile, cleanupSnap,
                       now, openSubmit, doubleSubmit, startOrder>>
        /\ UNCHANGED <<pvars, cvars, rvars, tvars, mvars, avars>>

\* the writeFile (or the mkdir) of the k-th saveBids in progress returns:
\* the call returns, or it throws and the file is as it was
StorageSaveReturn(k, ok) ==
    /\ k \in 1..Len(storage.saves)
    /\ storageFile' = IF ok THEN <<storage.saves[k].data>> ELSE storageFile
    /\ storage' = [storage EXCEPT
                      !.saves = Splice(@, k),
                      !.last = Did(storage.saves[k].method,
                                   IF ok THEN "returned" ELSE "threw", <<>>)]
    /\ UNCHANGED <<bidQueue, processingQueue, calls, bids, cleanupSnap, now,
                   openSubmit, doubleSubmit, startOrder>>
    /\ UNCHANGED <<pvars, cvars, rvars, tvars, mvars, avars>>

\* BidStorage is not called directly
StIdle == storage = [n |-> 0, saves |-> <<>>, last |-> Did("none", "none", <<>>)]

\* BidStorage.initialize has found no file and has written the empty ledger
StorageInit ==
    /\ bidQueue = <<>>
    /\ processingQueue = FALSE
    /\ calls = <<>>
    /\ bids = <<>>
    /\ storageFile = <<bids>>
    /\ cleanupSnap = NoSnapshot
    /\ now = 0
    /\ openSubmit = [k \in Collections \X Platforms |-> FALSE]
    /\ doubleSubmit = FALSE
    /\ startOrder = <<>>

(* ----------------------------- TaskManager ---------------------------- *)

\* this.priorityLevels
priorityLevels ==
    [ACCEPT_OFFER |-> 1, SUBMIT_BID |-> 2, CANCEL_BID |-> 3, RECALCULATE |-> 4]

\* addTask's default: "priority = this.priorityLevels.RECALCULATE"
DefaultPriority == priorityLevels.RECALCULATE

\* the types executeTask's switch has a case for
KnownTypes == DOMAIN priorityLevels

\* the addTask calls made: a type with its own level, a type with the
\* default priority, and a type executeTask does not know
TaskCalls ==
    {<<ty, priorityLevels[ty]>> : ty \in KnownTypes} \cup
    {<<"ACCEPT_OFFER", DefaultPriority>>, <<"UNKNOWN", DefaultPriority>>}

\* the task object addTask creates at time t; trail is the sequence of the
\* values assigned to task.status
NewTask(type, priority, t) ==
    [id |-> t, type |-> type, priority |-> priority, trail |-> <<"pending">>]

Status(task) == task.trail[Len(task.trail)]

SetStatus(h, ref, status) == [h EXCEPT ![ref].trail = Append(@, status)]

\* Map.set(id, ref): an existing key keeps its place and gets the new value
TaskSet(m, id, ref) ==
    IF \E k \in 1..Len(m) : m[k].id = id
    THEN [k \in 1..Len(m) |-> IF m[k].id = id THEN [id |-> id, ref |-> ref]
                              ELSE m[k]]
    ELSE Append(m, [id |-> id, ref |-> ref])

\* Map.delete(id)
TaskDelete(m, id) ==
    LET Other(e) == e.id # id
    IN  SelectSeq(m, Other)

\* Array.from(this.tasks.values()).filter(task => task.status === 'pending')
PendingTasks(m, h) ==
    LET IsPending(e) == Status(h[e.ref]) = "pending"
    IN  SelectSeq(m, IsPending)

RECURSIVE SortByPriority(_, _)
\* Array.prototype.sort((a, b) => a.priority - b.priority): a stable sort,
\* here by insertion of the last element into the sorted rest
InsertionOrder(s, h) == s
SortByPriority(s, h) ==
    IF Len(s) <= 1 THEN s
    ELSE LET rest == SortByPriority(SubSeq(s, 1, Len(s) - 1), h)
             x == s[Len(s)]
             NotAfter(e) == h[e.ref].priority <= h[x.ref].priority
             After(e) == h[e.ref].priority > h[x.ref].priority
         IN  SelectSeq(rest, NotAfter) \o <<x>> \o SelectSeq(rest, After)

\* where processTasks goes after executeTask has caught a task's error: on to
\* the delay and the next iteration
HaltAfterFailure == "stopped"
LoopAfterFailure == "sleep"

\* The state TaskManager's methods work on, as one record.
TState ==
    [heap |-> heap, tasks |-> tasks, loop |-> loop, current |-> current]

\* one iteration of processTasks' while loop from its condition to its
\* first await that waits for a timer or a handler
Iterate(st, isRunning) ==
    LET sorted == SortByPriority(PendingTasks(st.tasks, st.heap), st.heap)
        ref == sorted[1].ref
        started == SetStatus(st.heap, ref, "running")
    IN  IF ~isRunning THEN [st EXCEPT !.loop = "stopped"]
        ELSE IF Len(sorted) = 0 THEN [st EXCEPT !.loop = "sleep"]
        ELSE IF st.heap[ref].type \in KnownTypes
             THEN [st EXCEPT !.heap = started, !.loop = "exec",
                             !.current = <<ref>>]
             ELSE [st EXCEPT !.heap = SetStatus(started, ref, "failed"),
                             !.loop = LoopAfterFailure]

TApply(st) ==
    /\ heap' = st.heap
    /\ tasks' = st.tasks
    /\ loop' = st.loop
    /\ current' = st.current

\* TaskManager.initialize(), called once
Initialize ==
    /\ loop = "none"
    /\ running' = TRUE
    /\ TApply(Iterate(TState, TRUE))
    /\ UNCHANGED msNow
    /\ UNCHANGED <<qvars, pvars, cvars, rvars, mvars, avars, svars>>

\* TaskManager.addTask(type, data, priority)
AddTask(type, priority) ==
    /\ Len(heap) < MaxTasks
    /\ heap' = Append(heap, NewTask(type, priority, msNow))
    /\ tasks' = TaskSet(tasks, msNow, Len(heap) + 1)
    /\ UNCHANGED <<running, loop, current, msNow>>
    /\ UNCHANGED <<qvars, pvars, cvars, rvars, mvars, avars, svars>>

\* the handler awaited by executeTask returns (the handlers only log):
\* the task is completed and deleted, and processTasks starts its delay
HandlerReturn ==
    /\ loop = "exec"
    /\ heap' = SetStatus(heap, current[1], "completed")
    /\ tasks' = TaskDelete(tasks, heap[current[1]].id)
    /\ loop' = "sleep"
    /\ current' = <<>>
    /\ UNCHANGED <<running, msNow>>
    /\ UNCHANGED <<qvars, pvars, cvars, rvars, mvars, avars, svars>>

\* processTasks' 100 ms timer fires: the next iteration
DelayOver ==
    /\ loop = "sleep"
    /\ TApply(Iterate(TState, running))
    /\ UNCHANGED <<running, msNow>>
    /\ UNCHANGED <<qvars, pvars, cvars, rvars, mvars, avars, svars>>

\* TaskManager.cleanup()
Cleanup ==
    /\ running
    /\ running' = FALSE
    /\ tasks' = <<>>
    /\ UNCHANGED <<heap, loop, current, msNow>>
    /\ UNCHANGED <<qvars, pvars, cvars, rvars, mvars, avars, svars>>

\* a millisecond passes
MsTick ==
    /\ msNow < MaxMs
    /\ msNow' = msNow + 1
    /\ UNCHANGED <<heap, tasks, running, loop, current>>
    /\ UNCHANGED <<qvars, pvars, cvars, rvars, mvars, avars, svars>>

\* the TaskManager singleton after its constructor
TIdle ==
    /\ heap = <<>>
    /\ tasks = <<>>
    /\ running = FALSE
    /\ loop = "none"
    /\ current = <<>>
    /\ msNow = 0

(* ----------------------- the OpenSea offer monitor -------------------- *)

\* collectionsList: the slugs of collections.json, in order
TrackedSlugs == <<"s1">>
SlugSet == {TrackedSlugs[k] : k \in 1..Len(TrackedSlugs)}
\* the slugs a message may name
EventSlugs == SlugSet \cup {"sx"}
\* order hashes
Hashes == {"h1", "h2"}
\* null: fetchFirstOfferForSlug found no offer, or a hash that is absent
NoOffer == "none"
\* redisClient.get of a key that does not exist
Nil == "nil"
\* the empty string stored when there is no offer
Empty == ""
\* a value JSON.parse throws on, left in the shared store by another writer
Unparsable == "{"
StoreValues == {Nil, Empty, Unparsable} \cup Hashes

\* fetchFirstOfferForSlug(slug) when its request returns res: the top offer,
\* null if there is none, and null from its catch if the request failed
FetchResult(slug, res) == IF res = "ok" THEN topOffer[slug] ELSE NoOffer

\* "if (storedRaw) storedHash = JSON.parse(storedRaw).order_hash", null if
\* storedRaw is null or '' or if JSON.parse throws
RawAsHash(v) == v
StoredHash(v) == IF v \in Hashes THEN v ELSE NoOffer

\* JSON.stringify(newOffer), or '' if newOffer is null
AlwaysEmpty(offer) == Empty
ValueFor(offer) == IF offer = NoOffer THEN Empty ELSE offer

\* the handler's test "storedOffer.order_hash !== invalidatedHash" is false
AnyHash(stored, invalidated) == TRUE
HashMatches(stored, invalidated) == stored = invalidated

\* the poll callback's for loop moves on to the next collection or ends
NextSlug(th) ==
    IF th.idx < Len(TrackedSlugs)
    THEN [th EXCEPT !.pc = "fetch", !.idx = @ + 1, !.offer = NoOffer,
                    !.failed = FALSE]
    ELSE [th EXCEPT !.pc = "done"]

\* bag b with thread th replaced by th2; a thread that has ended is dropped
Replaced(b, th, th2) ==
    IF th2.pc = "done" THEN b (-) SetToBag({th})
    ELSE (b (-) SetToBag({th})) (+) SetToBag({th2})

\* no callback or handler touched the store in the latest step
NoMobs ==
    [kind |-> "none", slug |-> "sx", fetchFailed |-> FALSE, wrote |-> FALSE,
     changed |-> FALSE, matched |-> FALSE, stored |-> Nil,
     fetchStarted |-> FALSE]

\* setInterval fires the poll callback: the first collection's fetch is sent
PollFire ==
    /\ polled < MaxPolls
    /\ polled' = polled + 1
    /\ polls' = polls (+) SetToBag({[pc |-> "fetch", idx |-> 1,
                                      offer |-> NoOffer, failed |-> FALSE]})
    /\ mobs' = NoMobs
    /\ UNCHANGED <<offerKey, topOffer, handlers, events, changes, sockets,
                   reconnects, beats>>
    /\ UNCHANGED <<qvars, pvars, cvars, rvars, tvars, avars, svars>>

\* setInterval fires the poll callback once more, after the first MaxPolls
\* callbacks, when no callback is in progress
PollLater ==
    /\ polled = MaxPolls
    /\ polls = EmptyBag
    /\ polls' = SetToBag({[pc |-> "fetch", idx |-> 1, offer |-> NoOffer,
                            failed |-> FALSE]})
    /\ mobs' = NoMobs
    /\ UNCHANGED <<offerKey, topOffer, handlers, polled, events, changes,
                   sockets, reconnects, beats>>
    /\ UNCHANGED <<qvars, pvars, cvars, rvars, tvars, avars, svars>>

\* the callback's fetchFirstOfferForSlug returns: redisClient.get is sent
PollFetchReturn(th, res) ==
    /\ th \in BagToSet(polls)
    /\ th.pc = "fetch"
    /\ polls' = Replaced(polls, th,
                   [th EXCEPT !.pc = "get",
                              !.offer = FetchResult(TrackedSlugs[th.idx], res),
                              !.failed = res # "ok"])
    /\ mobs' = NoMobs
    /\ UNCHANGED <<offerKey, topOffer, handlers, polled, events, changes, sockets,
                   reconnects, beats>>
    /\ UNCHANGED <<qvars, pvars, cvars, rvars, tvars, avars, svars>>

\* the callback's redisClient.get returns: the hashes are compared and, if
\* they differ, redisClient.set is sent
PollGetReturn(th, ok) ==
    LET slug == TrackedSlugs[th.idx]
        differ == th.offer # StoredHash(offerKey[slug])
    IN  /\ th \in BagToSet(polls)
        /\ th.pc = "get"
        /\ polls' = Replaced(polls, th,
                       IF ok /\ differ THEN [th EXCEPT !.pc = "set"]
                       ELSE NextSlug(th))
        /\ mobs' = NoMobs
        /\ UNCHANGED <<offerKey, topOffer, handlers, polled, events, changes,
                       sockets, reconnects, beats>>
        /\ UNCHANGED <<qvars, pvars, cvars, rvars, tvars, avars, svars>>

\* the callback's redisClient.set returns
PollSetReturn(th, ok) ==
    LET slug == TrackedSlugs[th.idx]
        after == IF ok THEN [offerKey EXCEPT ![slug] = ValueFor(th.offer)]
                 ELSE offerKey
    IN  /\ th \in BagToSet(polls)
        /\ th.pc = "set"
        /\ offerKey' = after
        /\ polls' = Replaced(polls, th, NextSlug(th))
        /\ mobs' = [NoMobs EXCEPT !.kind = "poll", !.slug = slug,
                                  !.fetchFailed = th.failed, !.wrote = ok,
                                  !.changed = after # offerKey,
                                  !.stored = offerKey[slug]]
        /\ UNCHANGED <<topOffer, handlers, polled, events, changes, sockets,
                       reconnects, beats>>
        /\ UNCHANGED <<qvars, pvars, cvars, rvars, tvars, avars, svars>>

\* the open WebSocket delivers an order_invalidate message for slug and
\* hash: for a tracked collection redisClient.get is sent
Message(slug, hash) ==
    /\ events < MaxEvents
    /\ \E i \in 1..Len(sockets) : sockets[i].state = "open"
    /\ events' = events + 1
    /\ handlers' = IF slug \in SlugSet
                   THEN handlers (+) SetToBag({[pc |-> "get", slug |-> slug,
                                                hash |-> hash, seen |-> Nil,
                                                offer |-> NoOffer,
                                                failed |-> FALSE]})
                   ELSE handlers
    /\ mobs' = IF slug \in SlugSet THEN NoMobs
               ELSE [NoMobs EXCEPT !.kind = "event", !.slug = slug]
    /\ UNCHANGED <<offerKey, topOffer, polls, polled, changes, sockets,
                   reconnects, beats>>
    /\ UNCHANGED <<qvars, pvars, cvars, rvars, tvars, avars, svars>>

\* the handler's redisClient.get returns: an empty entry or another order
\* hash ends the handler, the stored hash starts fetchFirstOfferForSlug
HandlerGetReturn(th, ok) ==
    LET stored == offerKey[th.slug]
        refetch == /\ ok
                   /\ stored \notin {Nil, Empty}
                   /\ HashMatches(stored, th.hash)
    IN  /\ th \in BagToSet(handlers)
        /\ th.pc = "get"
        /\ handlers' = Replaced(handlers, th,
                          IF refetch THEN [th EXCEPT !.pc = "fetch", !.seen = stored]
                          ELSE [th EXCEPT !.pc = "done"])
        /\ mobs' = [NoMobs EXCEPT !.kind = "event", !.slug = th.slug,
                                  !.stored = stored,
                                  !.matched = ok /\ stored = th.hash,
                                  !.fetchStarted = refetch]
        /\ UNCHANGED <<offerKey, topOffer, polls, polled, events, changes,
                       sockets, reconnects, beats>>
        /\ UNCHANGED <<qvars, pvars, cvars, rvars, tvars, avars, svars>>

\* the handler's fetchFirstOfferForSlug returns: redisClient.set is sent
HandlerFetchReturn(th, res) ==
    /\ th \in BagToSet(handlers)
    /\ th.pc = "fetch"
    /\ handlers' = Replaced(handlers, th,
                      [th EXCEPT !.pc = "set",
                                 !.offer = FetchResult(th.slug, res),
                                 !.failed = res # "ok"])
    /\ mobs' = NoMobs
    /\ UNCHANGED <<offerKey, topOffer, polls, polled, events, changes, sockets,
                   reconnects, beats>>
    /\ UNCHANGED <<qvars, pvars, cvars, rvars, tvars, avars, svars>>

\* the handler's redisClient.set returns
HandlerSetReturn(th, ok) ==
    LET after == IF ok THEN [offerKey EXCEPT ![th.slug] = ValueFor(th.offer)]
                 ELSE offerKey
    IN  /\ th \in BagToSet(handlers)
        /\ th.pc = "set"
        /\ offerKey' = after
        /\ handlers' = Replaced(handlers, th, [th EXCEPT !.pc = "done"])
        /\ mobs' = [NoMobs EXCEPT !.kind = "handler", !.slug = th.slug,
                                  !.fetchFailed = th.failed, !.wrote = ok,
                                  !.changed = after # offerKey,
                                  !.stored = offerKey[th.slug],
                                  !.matched = th.seen = th.hash]
        /\ UNCHANGED <<topOffer, polls, polled, events, changes, sockets,
                       reconnects, beats>>
        /\ UNCHANGED <<qvars, pvars, cvars, rvars, tvars, avars, svars>>

\* the top offer of a collection changes at the marketplace
MarketChange(slug, offer) ==
    /\ changes < MaxChanges
    /\ topOffer[slug] # offer
    /\ topOffer' = [topOffer EXCEPT ![slug] = offer]
    /\ changes' = changes + 1
    /\ mobs' = NoMobs
    /\ UNCHANGED <<offerKey, polls, handlers, polled, events, sockets,
                   reconnects, beats>>
    /\ UNCHANGED <<qvars, pvars, cvars, rvars, tvars, avars, svars>>

\* "new WebSocket(WS_ENDPOINT)" with "let heartbeatInterval = null"
NewSocket ==
    [state |-> "connecting", heartbeat |-> FALSE, joined |-> {},
     errored |-> FALSE]

\* the close handler's "if (heartbeatInterval) clearInterval(heartbeatInterval)"
KeepHeartbeat(hb) == hb
ClearHeartbeat(hb) == FALSE

\* ws.on('open'): a heartbeat is sent, the heartbeat interval is started and
\* every collection topic is joined
WsOpen(i) ==
    /\ sockets[i].state = "connecting"
    /\ ~sockets[i].errored
    /\ sockets' = [sockets EXCEPT ![i].state = "open", ![i].heartbeat = TRUE,
                                  ![i].joined = SlugSet]
    /\ UNCHANGED <<offerKey, topOffer, polls, handlers, polled, events, changes,
                   mobs, reconnects, beats>>
    /\ UNCHANGED <<qvars, pvars, cvars, rvars, tvars, avars, svars>>

\* ws.on('error'), before or after the open: the error is logged
WsError(i) ==
    /\ sockets[i].state \in {"connecting", "open"}
    /\ ~sockets[i].errored
    /\ sockets' = [sockets EXCEPT ![i].errored = TRUE]
    /\ UNCHANGED <<offerKey, topOffer, polls, handlers, polled, events, changes,
                   mobs, reconnects, beats>>
    /\ UNCHANGED <<qvars, pvars, cvars, rvars, tvars, avars, svars>>

\* ws.on('close'), emitted once per socket: after a failed handshake (which
\* emits 'error' first) or after the open connection has gone
WsClose(i) ==
    /\ \/ sockets[i].state = "open"
       \/ sockets[i].state = "connecting" /\ sockets[i].errored
    /\ sockets' = [sockets EXCEPT ![i].state = "closed",
                                  ![i].heartbeat = ClearHeartbeat(@)]
    /\ reconnects' = reconnects + 1
    /\ UNCHANGED <<offerKey, topOffer, polls, handlers, polled, events, changes,
                   mobs, beats>>
    /\ UNCHANGED <<qvars, pvars, cvars, rvars, tvars, avars, svars>>

\* setTimeout(connectWebSocket, RECONNECT_DELAY_MS) fires
Reconnect ==
    /\ reconnects > 0
    /\ Len(sockets) < MaxSockets
    /\ reconnects' = reconnects - 1
    /\ sockets' = Append(sockets, NewSocket)
    /\ UNCHANGED <<offerKey, topOffer, polls, handlers, polled, events, changes,
                   mobs, beats>>
    /\ UNCHANGED <<qvars, pvars, cvars, rvars, tvars, avars, svars>>

\* the heartbeat interval of socket i fires: ws.send(heartbeat)
Heartbeat(i) ==
    /\ sockets[i].heartbeat
    /\ beats < MaxBeats
    /\ beats' = beats + 1
    /\ UNCHANGED <<offerKey, topOffer, polls, handlers, polled, events, changes,
                   mobs, sockets, reconnects>>
    /\ UNCHANGED <<qvars, pvars, cvars, rvars, tvars, avars, svars>>

\* the monitor before it is started
MIdle ==
    /\ offerKey = [s \in SlugSet |-> Nil]
    /\ topOffer = [s \in SlugSet |-> NoOffer]
    /\ polls = EmptyBag
    /\ handlers = EmptyBag
    /\ polled = 0
    /\ events = 0
    /\ changes = 0
    /\ mobs = NoMobs
    /\ sockets = <<>>
    /\ reconnects = 0
    /\ beats = 0

\* main() has made the initial population (a key holds the offer fetched,
\* '' if none was fetched, or what it held before if its write failed), has
\* started the poll interval and the first WebSocket is open; the top offer
\* at that time, if there is one, is named h1
MInit ==
    /\ offerKey \in [SlugSet -> StoreValues]
    /\ topOffer \in [SlugSet -> {"h1", NoOffer}]
    /\ polls = EmptyBag
    /\ handlers = EmptyBag
    /\ polled = 0
    /\ events = 0
    /\ changes = 0
    /\ mobs = NoMobs
    /\ sockets = <<[NewSocket EXCEPT !.state = "open", !.heartbeat = TRUE,
                                     !.joined = SlugSet]>>
    /\ reconnects = 0
    /\ beats = 0

\* main() has called connectWebSocket
SInit ==
    /\ offerKey = [s \in SlugSet |-> Nil]
    /\ topOffer = [s \in SlugSet |-> NoOffer]
    /\ polls = EmptyBag
    /\ handlers = EmptyBag
    /\ polled = 0
    /\ events = 0
    /\ changes = 0
    /\ mobs = NoMobs
    /\ sockets = <<NewSocket>>
    /\ reconnects = 0
    /\ beats = 0

(* --------------------------- the Blur acceptor ------------------------ *)

\* Fee_Rate of a collection in collections.json: a decimal string, an empty
\* string, a string that is no number, or no Fee_Rate property at all
FeeRates == {"30", "", "abc", "undefined"}

\* Number(matchInfo.Fee_Rate); -1 stands for NaN
NotANumber == -1
ToNumber(s) ==
    CASE s = "30" -> 30
      [] s = ""   -> 0
      [] OTHER    -> NotANumber

\* "feeRateForCollection === null || isNaN(feeRateForCollection)" is false
\* (every matching NFT has its collection in collections.json, so matchInfo
\* is found and the fee rate is never null)
HasFeeRate(fee) == ToNumber(fee) # NotANumber

\* the for loop from the NFT at index k: the NFTs without a fee rate are
\* skipped; at the first one with a fee rate attempt 1 requests a quote; the
\* function returns when no NFT is left
RECURSIVE NextNft(_, _)
NextNft(a, k) ==
    IF k > Len(a.nfts)
    THEN [a EXCEPT !.i = k, !.pc = "done", !.attempt = 0, !.quoteId = 0]
    ELSE IF HasFeeRate(a.nfts[k])
         THEN [a EXCEPT !.i = k, !.pc = "quote", !.attempt = 1, !.quoteId = 0,
                        !.quotes = @ + 1]
         ELSE NextNft(a, k + 1)

\* "attempt++; continue": the while loop requests a quote again
AcceptSameAgain(a) == [a EXCEPT !.pc = "accept", !.attempt = @ + 1]
Retry(a) ==
    [a EXCEPT !.pc = "quote", !.attempt = @ + 1, !.quoteId = 0, !.quotes = @ + 1]

\* "if (acceptResp && acceptResp.success) break", on to the next NFT;
\* otherwise "attempt++; continue"
AfterAccept(a, success) ==
    IF success THEN NextNft(a, a.i + 1) ELSE Retry(a)

\* getBlurBidQuote returns to the while loop: the response data with a
\* quoteId (the quote of this request), data without a quoteId, or null
\* after an error
QuoteReturn(res) ==
    /\ acceptor.pc = "quote"
    /\ res # "ok" => acceptor.attempt < MaxAttempts
    /\ acceptor' =
          IF res = "ok"
          THEN [acceptor EXCEPT !.pc = "accept", !.quoteId = acceptor.quotes,
                                !.last = "quoted"]
          ELSE [Retry(acceptor) EXCEPT !.last = "quoteFailed"]
    /\ UNCHANGED <<qvars, pvars, cvars, rvars, tvars, mvars, svars>>

\* acceptBlurBid returns to the while loop: data with success true, data
\* without it, or null after an error
AcceptReturn(res) ==
    /\ acceptor.pc = "accept"
    /\ res # "success" => acceptor.attempt < MaxAttempts
    /\ acceptor' =
          [AfterAccept(acceptor, res = "success") EXCEPT
              !.last = IF res = "success" THEN "accepted" ELSE "acceptFailed",
              !.sent = Append(@, acceptor.quoteId)]
    /\ UNCHANGED <<qvars, pvars, cvars, rvars, tvars, mvars, svars>>

\* the acceptor is not running
AIdle ==
    acceptor = [nfts |-> <<>>, i |-> 0, pc |-> "idle", attempt |-> 0,
                quoteId |-> 0, quotes |-> 0, sent |-> <<>>, last |-> "none"]

\* getAllNftsForOwner has returned, at least one NFT matches collections.json
\* and the for loop has reached its first await
AInit ==
    \E n \in 1..MaxNfts : \E nfts \in [1..n -> FeeRates] :
        acceptor = NextNft([nfts |-> nfts, i |-> 0, pc |-> "idle",
                            attempt |-> 0, quoteId |-> 0, quotes |-> 0,
                            sent |-> <<>>, last |-> "none"], 1)

XIdle == RIdle /\ TIdle /\ MIdle /\ AIdle /\ StIdle

(* ------------------------ the live Blur bidder ------------------------ *)

Contracts == {"c1"}
\* the order in which KEYS returns the contracts' keys
ContractOrder == <<"c1">>
Markets == {"opensea", "blur"}

\* PROFIT_MARGIN = 0.005 ETH, in units of 0.001 ETH
PROFIT_MARGIN == 5
\* two-decimal precision, 0.01 ETH, in units of 0.001 ETH
CentUnits == 10

\* A raw value is a sequence of tokens: " " is whitespace, "{" opens a JSON
\* object whose next token is the price field (price_per_nft.readable,
\* bestPrice), "m" is a field unrelated to the price (totalValue), a number
\* token is a decimal number.
PriceOf == [n4 |-> 4, n200 |-> 200, n205 |-> 205]
NaN == -1

RawValues ==
    { <<>>,
      <<"{", "n200">>, <<"{", "n200", "m">>, <<"{", "n200", " ">>,
      <<"{", "n205">>, <<"{", "n4">>,
      <<"n200">> }

\* values the offer keys may hold when the bidder starts
InitRaws == { <<"{", "n200">> }
\* values Bid:Blur:<contract> may hold when the bidder starts
InitBids == {190}

RECURSIVE TrimStart(_)
TrimStart(s) == IF s # <<>> /\ Head(s) = " " THEN TrimStart(Tail(s)) ELSE s

RECURSIVE TrimEnd(_)
TrimEnd(s) ==
    IF s # <<>> /\ s[Len(s)] = " " THEN TrimEnd(SubSeq(s, 1, Len(s) - 1)) ELSE s

\* String.prototype.trim
Trim(s) == TrimEnd(TrimStart(s))

\* parseFloat of one token
ParseFloat(tok) == IF tok \in DOMAIN PriceOf THEN PriceOf[tok] ELSE NaN

\* processFromOpenSea: parseFloat(JSON.parse(rawJson).price_per_nft.readable)
ParseOpenSea(s) ==
    IF Len(s) >= 2 /\ s[1] = "{" THEN ParseFloat(s[2]) ELSE NaN

\* processFromBlur: JSON.bestPrice if the string starts with "{", else the
\* bare number
ParseBlur(s) ==
    IF s # <<>> /\ TrimStart(s)[1] = "{"
    THEN (IF Len(TrimStart(s)) >= 2 THEN ParseFloat(TrimStart(s)[2]) ELSE NaN)
    ELSE (IF TrimStart(s) # <<>> THEN ParseFloat(TrimStart(s)[1]) ELSE NaN)

Parse(market, s) == IF market = "opensea" THEN ParseOpenSea(s) ELSE ParseBlur(s)

\* Prices p (0.001 ETH, up to 1.005 ETH) for which the double (p - 0.005) * 100
\* falls one ulp short of the integer it equals in exact arithmetic, e.g.
\* (0.295 - 0.005) * 100 = 28.999999999999996
LostUlp == {15, 75, 145, 285, 295, 565, 575, 585, 1005}

\* Math.floor((price - margin) * 100) in IEEE-754 double arithmetic
FloorCents(price, margin) ==
    IF price \in LostUlp /\ margin = PROFIT_MARGIN
    THEN ((price - margin) \div CentUnits) - 1
    ELSE (price - margin) \div CentUnits

\* the test "if (raw <= 0) return 0" / "if (maxBid <= 0) throw"
NoProfitBelowZero(raw) == raw < 0
NoProfit(raw) == raw <= 0

calculateBidWithMargin(observedEth) ==
    LET raw == observedEth - PROFIT_MARGIN
    IN  IF NoProfit(raw) THEN 0
        ELSE FloorCents(observedEth, PROFIT_MARGIN) * CentUnits

\* Number.prototype.toFixed(2), read back by parseFloat: the nearest 0.01 ETH
ToFixed2(x) == ((2 * x + CentUnits) \div (2 * CentUnits)) * CentUnits

\* the polling loop's test "prevRaw !== rawTrim"
PriceChanged(market, prevRaw, rawTrim) ==
    Parse(market, prevRaw) # Parse(market, rawTrim)
Changed(market, prevRaw, rawTrim) == prevRaw # rawTrim

\* the value "lastSeen.set(contract, rawTrim)" leaves for a key whose
\* recorded value was prev (<<>> if none, else <<value>>)
KeepLastSeen(prev, rawTrim) == prev
SetLastSeen(prev, rawTrim) == <<rawTrim>>

Lookup(m, k) == IF k \in DOMAIN m THEN <<m[k]>> ELSE <<>>

\* the async functions in progress: main and the setInterval callbacks
Workers ==
    {[isMain |-> TRUE, th |-> main]} \cup
    {[isMain |-> FALSE, th |-> x] : x \in BagToSet(ticks)}

\* worker w goes on as th2; a callback that has returned is dropped
Continue(w, th2) ==
    IF w.isMain
    THEN main' = th2 /\ ticks' = ticks
    ELSE /\ main' = main
         /\ ticks' = IF th2.pc = "done" THEN ticks (-) SetToBag({w.th})
                     ELSE (ticks (-) SetToBag({w.th})) (+) SetToBag({th2})

\* the for loop moves on: the next key's GET, the next pattern's KEYS, or the
\* end of the function
NextKey(th) ==
    IF Len(th.keys) > 1
    THEN [th EXCEPT !.pc = "get", !.keys = Tail(@), !.bid = 0, !.steps = {}]
    ELSE IF th.market = "opensea"
         THEN [th EXCEPT !.pc = "keys", !.market = "blur", !.keys = <<>>,
                         !.bid = 0, !.steps = {}]
         ELSE [th EXCEPT !.pc = "done", !.keys = <<>>, !.bid = 0, !.steps = {}]

\* an exception leaves the loop body: the setInterval callback's catch logs
\* it; in main it rejects main() and the process exits
Abort(w) ==
    [w.th EXCEPT !.pc = IF w.isMain THEN "exit" ELSE "done", !.keys = <<>>,
                 !.bid = 0, !.steps = {}]

\* processFromOpenSea / processFromBlur up to the GET of Bid:Blur:<contract>
Process(th, rawTrim) ==
    LET price == Parse(th.market, rawTrim)
        bidEth == calculateBidWithMargin(price)
    IN  IF price = NaN THEN NextKey(th)
        ELSE IF bidEth <= 0 THEN NextKey(th)
        ELSE [th EXCEPT !.pc = "oldbid", !.bid = bidEth]

\* the test "oldBidVal !== null && !isNaN(oldBidVal) && oldBidVal === bidEth"
NeverUnchanged(oldBidVal, bidEth) == FALSE
BidUnchanged(oldBidVal, bidEth) == oldBidVal # <<>> /\ oldBidVal[1] = bidEth

\* a prior bid exists and differs: "Canceling old Blur @ ..." is logged, the
\* cancel request is a TODO, and submitNewBlurBid is called
WaitForCancel(th) == [th EXCEPT !.pc = "cancel"]
ReplaceBid(th) == [th EXCEPT !.pc = "format"]

\* whether the initial population evaluates the keys of a market
StartupEvaluatesAll(market) == TRUE
StartupEvaluates(market) == market = "opensea"

\* submitNewBlurBid after its submit request returned
IgnoreSubmitFailure(th, ok) ==
    [th EXCEPT !.pc = "set", !.steps = IF ok THEN @ \cup {"submit"} ELSE @]
AfterSubmit(th, ok) ==
    IF ok THEN [th EXCEPT !.pc = "set", !.steps = @ \cup {"submit"}]
    ELSE NextKey(th)

\* some key of the tick has not been examined yet when th handles Head(th.keys)
KeysLeft(th) ==
    \/ Len(th.keys) > 1
    \/ th.market = "opensea" /\ \E c \in Contracts : <<"blur", c>> \in DOMAIN store

\* no offer key was read in the latest step
NoObs == [market |-> "opensea", contract |-> "none", startup |-> TRUE,
          empty |-> TRUE, repeat |-> FALSE, differs |-> FALSE,
          differsTrimmed |-> FALSE, triggered |-> FALSE, known |-> FALSE,
          seenSame |-> FALSE, noBid |-> FALSE, pcAfter |-> "none",
          abort |-> FALSE, left |-> FALSE, tie |-> FALSE, failedStep |-> FALSE,
          replaces |-> FALSE]

\* an exception left the loop body while worker w handled a key
AbortObs(w) ==
    [NoObs EXCEPT !.market = w.th.market, !.contract = Head(w.th.keys),
                  !.startup = w.isMain, !.abort = TRUE, !.left = KeysLeft(w.th),
                  !.pcAfter = Abort(w).pc]

\* setInterval fires the callback: KEYS c-offer:opensea:* is sent
Fire ==
    /\ main.pc = "done"
    /\ fired < MaxTicks
    /\ fired' = fired + 1
    /\ ticks' = ticks (+) SetToBag({[pc |-> "keys", market |-> "opensea",
                                      keys |-> <<>>, bid |-> 0, steps |-> {}]})
    /\ UNCHANGED <<store, bidKey, lastSeen, main, writes, lastRead, lastNonEmpty>>
    /\ obs' = NoObs
    /\ UNCHANGED <<qvars, cvars, xvars>>

\* client.keys(pattern) returns
KeysReturn(w, ok) ==
    LET th == w.th
        Present(c) == <<th.market, c>> \in DOMAIN store
        ks == SelectSeq(ContractOrder, Present)
    IN  /\ th.pc = "keys"
        /\ Continue(w, IF ~ok THEN Abort(w)
                       ELSE IF ks = <<>> THEN NextKey(th)
                       ELSE [th EXCEPT !.pc = "get", !.keys = ks])
        /\ UNCHANGED <<store, bidKey, lastSeen, fired, writes, lastRead, lastNonEmpty>>
        /\ obs' = NoObs
        /\ UNCHANGED <<qvars, cvars, xvars>>

\* client.get(key) returns raw: the comparison with the last-seen value and,
\* on a change, the call of processFromOpenSea / processFromBlur
GetReturn(w, ok) ==
    LET th == w.th
        key == <<th.market, Head(th.keys)>>
        raw == store[key]
        rawTrim == Trim(raw)
        prev == Lookup(lastSeen, key)
        trigger == IF w.isMain THEN StartupEvaluates(th.market)
                   ELSE prev = <<>> \/ Changed(th.market, prev[1], rawTrim)
        seen == SetLastSeen(prev, rawTrim)
        th2 == IF raw = <<>> THEN NextKey(th)
               ELSE IF trigger THEN Process(th, rawTrim)
               ELSE NextKey(th)
    IN  /\ th.pc = "get"
        /\ IF ~ok
           THEN /\ Continue(w, Abort(w))
                /\ UNCHANGED <<lastSeen, lastRead, lastNonEmpty>>
                /\ obs' = AbortObs(w)
           ELSE /\ lastRead' = MapSet(lastRead, key, raw)
                /\ lastNonEmpty' = IF raw = <<>> THEN lastNonEmpty
                                   ELSE MapSet(lastNonEmpty, key, raw)
                /\ obs' = [NoObs EXCEPT
                           !.market = th.market,
                           !.contract = Head(th.keys),
                           !.startup = w.isMain,
                           !.empty = raw = <<>>,
                           !.repeat = Lookup(lastRead, key) = <<raw>>,
                           !.differs = Lookup(lastRead, key) \notin {<<>>, <<raw>>},
                           !.differsTrimmed =
                               /\ Lookup(lastNonEmpty, key) # <<>>
                               /\ Trim(Lookup(lastNonEmpty, key)[1]) # Trim(raw),
                           !.triggered = raw # <<>> /\ trigger,
                           !.known = prev # <<>>,
                           !.seenSame = prev = <<rawTrim>>,
                           !.noBid = /\ raw # <<>> /\ trigger
                                     /\ Parse(th.market, rawTrim) # NaN
                                     /\ calculateBidWithMargin(
                                            Parse(th.market, rawTrim)) <= 0,
                           !.pcAfter = th2.pc]
                /\ IF raw = <<>>
                   THEN UNCHANGED lastSeen
                   ELSE lastSeen' = IF (w.isMain \/ trigger) /\ seen # <<>>
                                    THEN MapSet(lastSeen, key, seen[1])
                                    ELSE lastSeen
                /\ Continue(w, th2)
        /\ UNCHANGED <<store, bidKey, fired, writes>>
        /\ UNCHANGED <<qvars, cvars, xvars>>

\* redisClient.get("Bid:Blur:<contract>") returns: the comparison with the
\* calculated bid and, if they differ, submitNewBlurBid's format request
OldBidReturn(w, ok) ==
    LET th == w.th
        oldBidVal == Lookup(bidKey, Head(th.keys))
        th2 == IF BidUnchanged(oldBidVal, th.bid) THEN NextKey(th)
               ELSE IF oldBidVal # <<>> THEN ReplaceBid(th)
               ELSE [th EXCEPT !.pc = "format"]
    IN  /\ th.pc = "oldbid"
        /\ Continue(w, IF ~ok THEN Abort(w) ELSE th2)
        /\ UNCHANGED <<store, bidKey, lastSeen, fired, writes, lastRead, lastNonEmpty>>
        /\ obs' = IF ~ok THEN AbortObs(w)
                  ELSE [NoObs EXCEPT !.tie = oldBidVal = <<th.bid>>,
                                     !.replaces = /\ oldBidVal # <<>>
                                                  /\ oldBidVal[1] # th.bid,
                                     !.contract = Head(th.keys),
                                     !.pcAfter = th2.pc]
        /\ UNCHANGED <<qvars, cvars, xvars>>

\* POST /collection-bids/format returns, and on success the payload is
\* normalised and signed: res is "ok" (the submit request is sent), "fail"
\* (the request failed), "nosig" (no BLUR signature object in the response),
\* "signfail" (signTypedData threw) or "malformed" (the response has no
\* signatures array: the TypeError is not caught in submitNewBlurBid)
FormatReturn(w, res) ==
    /\ w.th.pc = "format"
    /\ Continue(w, IF res = "ok"
                   THEN [w.th EXCEPT !.pc = "submit", !.steps = {"format", "sign"}]
                   ELSE IF res = "malformed" THEN Abort(w)
                   ELSE NextKey(w.th))
    /\ UNCHANGED <<store, bidKey, lastSeen, fired, writes, lastRead, lastNonEmpty>>
    /\ obs' = IF res = "malformed" THEN AbortObs(w)
              ELSE [NoObs EXCEPT !.failedStep = res # "ok",
                                 !.contract = Head(w.th.keys)]
    /\ UNCHANGED <<qvars, cvars, xvars>>

\* POST /collection-bids/submit returns
SubmitReturn(w, ok) ==
    /\ w.th.pc = "submit"
    /\ Continue(w, AfterSubmit(w.th, ok))
    /\ UNCHANGED <<store, bidKey, lastSeen, fired, writes, lastRead, lastNonEmpty>>
    /\ obs' = [NoObs EXCEPT !.failedStep = ~ok, !.contract = Head(w.th.keys)]
    /\ UNCHANGED <<qvars, cvars, xvars>>

\* redisClient.set("Bid:Blur:<contract>", bidEth.toFixed(2)) returns
SetReturn(w, ok) ==
    /\ w.th.pc = "set"
    /\ bidKey' = IF ok THEN MapSet(bidKey, Head(w.th.keys), ToFixed2(w.th.bid))
                 ELSE bidKey
    /\ Continue(w, NextKey(w.th))
    /\ UNCHANGED <<store, lastSeen, fired, writes, lastRead, lastNonEmpty>>
    /\ obs' = NoObs
    /\ UNCHANGED <<qvars, cvars, xvars>>

\* an upstream monitor rewrites an offer key
WriteOffer(market, c, v) ==
    /\ writes < MaxWrites
    /\ Lookup(store, <<market, c>>) # <<v>>
    /\ store' = MapSet(store, <<market, c>>, v)
    /\ writes' = writes + 1
    /\ UNCHANGED <<bidKey, lastSeen, main, ticks, fired, lastRead, lastNonEmpty>>
    /\ obs' = NoObs
    /\ UNCHANGED <<qvars, cvars, xvars>>

IdleThread ==
    [pc |-> "idle", market |-> "opensea", keys |-> <<>>, bid |-> 0, steps |-> {}]

\* the empty Map / the store with no such key
EmptyMap == <<>>

PartialMaps(D, R) == UNION {[S -> R] : S \in SUBSET D}

\* main() has connected and sent KEYS c-offer:opensea:*
PInit ==
    /\ store \in PartialMaps(Markets \X Contracts, InitRaws)
    /\ bidKey \in PartialMaps(Contracts, InitBids)
    /\ lastSeen = EmptyMap
    /\ main = [IdleThread EXCEPT !.pc = "keys"]
    /\ ticks = EmptyBag
    /\ fired = 0
    /\ writes = 0
    /\ lastRead = EmptyMap
    /\ lastNonEmpty = EmptyMap
    /\ obs = NoObs

\* the bidder before it is started
PIdle ==
    /\ store = EmptyMap
    /\ bidKey = EmptyMap
    /\ lastSeen = EmptyMap
    /\ main = IdleThread
    /\ ticks = EmptyBag
    /\ fired = 0
    /\ writes = 0
    /\ lastRead = EmptyMap
    /\ lastNonEmpty = EmptyMap
    /\ obs = NoObs

QInit ==
    /\ bidQueue = <<>>
    /\ processingQueue = FALSE
    /\ calls = <<>>
    /\ bids = <<>>
    /\ storageFile = NoFile
    /\ cleanupSnap = NoSnapshot
    /\ now = 0
    /\ openSubmit = [k \in Collections \X Platforms |-> FALSE]
    /\ doubleSubmit = FALSE
    /\ startOrder = <<>>

(* -------------------------- the bid calculators ----------------------- *)

\* A5-Blur-Acceptor: PROFIT_MARGIN = 0.005 ETH and MIN_INCREMENT = 0.00001 ETH,
\* in units of 0.000001 ETH
A5_PROFIT_MARGIN == 5000
MIN_INCREMENT == 10
\* five-decimal precision, 0.00001 ETH, in units of 0.000001 ETH
RoundUnits == 10
\* config.bid.blur.bidDeduction = '0.005', in units of 0.001 ETH
bidDeduction == 5

\* number of sixth-decimal steps the computeBidAmount inputs range over
MaxFrac == 6
\* largest observed price given to calculateBidWithMargin, in 0.001 ETH
MaxPrice == 300

\* blurBid values: around the margin, and 0.200000 .. 0.200000 + MaxFrac
CalcRefs == {0, 4000, 5000, 5001, 5010} \cup {200000 + f : f \in 0..MaxFrac}
\* osBid values: far below, far above and around 0.195 = 0.2 - margin
CalcComps == {0, 100000, 300000} \cup {194990 + f : f \in 0..(MaxFrac + 10)}
CalcPrices == 0..MaxPrice

\* Math.round(x * 1e5) / 1e5: to the nearest 0.00001 ETH, halves upwards
Round5(x) == ((2 * x + RoundUnits) \div (2 * RoundUnits)) * RoundUnits

\* A5-Blur-Acceptor computeBidAmount: Throw, or <<bidAmount>>
computeBidAmount(blurBid, osBid, profitMargin, minIncrement) ==
    LET maxBid == blurBid - profitMargin
    IN  IF NoProfit(maxBid) THEN Throw
        ELSE IF osBid >= maxBid THEN <<Round5(maxBid)>>
        ELSE <<Round5(osBid + minIncrement)>>

\* A3-Blur-Amount calculateBidWithMargin(osOfferEth, profitMargin = PROFIT_MARGIN)
calculateBidWithMarginA3(osOfferEth, profitMargin) ==
    LET rawTarget == osOfferEth - profitMargin
    IN  IF NoProfit(rawTarget) THEN 0
        ELSE FloorCents(osOfferEth, profitMargin) * CentUnits

\* BidManager.calculateBlurAmount
calculateBlurAmount(currentBid) == FloorCents(currentBid, bidDeduction) * CentUnits

\* JavaScript values of the BidManager calculators: a number, in units of
\* 0.00001 ETH, or a string, as the sequence of its characters
FracDigits == 5
JsNumber(n) == [type |-> "number", val |-> n]
JsString(chars) == [type |-> "string", val |-> chars]

\* config.bid: every value is a string (a literal or a process.env entry)
ConfigBid ==
    [blur |-> [bidDeduction |-> JsString(<<"0", ".", "0", "0", "5">>),
               gasCost |-> JsString(<<"0", ".", "0", "0", "1">>)],
     opensea |-> [bidDeduction |-> JsString(<<"0", ".", "0", "0", "5">>),
                  outbidAmount |-> JsString(<<"0", ".", "0", "0", "0", "0", "1">>),
                  gasCost |-> JsString(<<"0", ".", "0", "0", "1">>)]]

DecimalDigits == <<"0", "1", "2", "3", "4", "5", "6", "7", "8", "9">>

RECURSIVE DigitsValue(_)
\* the value of a sequence of decimal digits
DigitsValue(chars) ==
    IF chars = <<>> THEN 0
    ELSE 10 * DigitsValue(SubSeq(chars, 1, Len(chars) - 1))
         + (CHOOSE d \in 0..9 : DecimalDigits[d + 1] = chars[Len(chars)])

RECURSIVE DigitsOf(_)
\* the decimal digits of a natural number
DigitsOf(n) ==
    IF n < 10 THEN <<DecimalDigits[n + 1]>>
    ELSE Append(DigitsOf(n \div 10), DecimalDigits[(n % 10) + 1])

RECURSIVE StripZeros(_)
StripZeros(chars) ==
    IF chars # <<>> /\ chars[Len(chars)] = "0"
    THEN StripZeros(SubSeq(chars, 1, Len(chars) - 1))
    ELSE chars

\* ToNumber of a string holding an unsigned decimal literal (what the binary
\* minus applies to a string operand)
StringToNumber(chars) ==
    LET dots == {k \in 1..Len(chars) : chars[k] = "."}
        dot == IF dots = {} THEN Len(chars) + 1 ELSE CHOOSE k \in dots : TRUE
        frac == SubSeq(chars, dot + 1, Len(chars))
                    \o [k \in 1..FracDigits |-> "0"]
    IN  DigitsValue(SubSeq(chars, 1, dot - 1)) * (10 ^ FracDigits)
        + DigitsValue(SubSeq(frac, 1, FracDigits))

\* Number::toString for a value with at most FracDigits decimals
NumberToString(n) ==
    LET abs == IF n < 0 THEN -n ELSE n
        frac == abs % (10 ^ FracDigits)
        fracChars == StripZeros(
            [k \in 1..(FracDigits - Len(DigitsOf(frac))) |-> "0"]
                \o DigitsOf(frac))
    IN  (IF n < 0 THEN <<"-">> ELSE <<>>)
        \o DigitsOf(abs \div (10 ^ FracDigits))
        \o (IF fracChars = <<>> THEN <<>> ELSE <<".">> \o fracChars)

NumberOf(x) == IF x.type = "number" THEN x.val ELSE StringToNumber(x.val)
StringOf(x) == IF x.type = "string" THEN x.val ELSE NumberToString(x.val)

\* the binary - operator: both operands are converted to numbers
JsMinus(a, b) == JsNumber(NumberOf(a) - NumberOf(b))

\* the binary + operator: concatenation as soon as one operand is a string
JsPlus(a, b) ==
    IF a.type = "string" \/ b.type = "string"
    THEN JsString(StringOf(a) \o StringOf(b))
    ELSE JsNumber(a.val + b.val)

\* BidManager.calculateOpenseaAmount
calculateOpenseaAmount(currentBid) ==
    LET amount == JsMinus(currentBid, ConfigBid.opensea.bidDeduction)
    IN  JsPlus(amount, ConfigBid.opensea.outbidAmount)

\* BidManager.estimateGasCost
estimateGasCost(platform) == ConfigBid[platform].gasCost

\* BidManager.calculateBidAmount for a currentBid given in 0.001 ETH
calculateBidAmount(platform, currentBid) ==
    LET gasEstimate == estimateGasCost(platform)
        baseAmount ==
            IF platform = "blur"
            THEN JsNumber(calculateBlurAmount(currentBid) * 100)
            ELSE calculateOpenseaAmount(JsNumber(currentBid * 100))
    IN  [amount |-> baseAmount, gasCost |-> gasEstimate,
         totalCost |-> JsPlus(baseAmount, gasEstimate)]

NoResult == [fn |-> "none", out |-> <<>>]

ComputeBidAmount ==
    /\ calcResult = NoResult
    /\ calcResult' =
          [fn |-> "computeBidAmount",
           out |-> computeBidAmount(inBlurBid, inOsBid, A5_PROFIT_MARGIN,
                                    MIN_INCREMENT)]
    /\ UNCHANGED <<inBlurBid, inOsBid, inPrice>>
    /\ UNCHANGED <<qvars, pvars, xvars>>

CalculateBidWithMargin ==
    /\ calcResult = NoResult
    /\ calcResult' = [fn |-> "calculateBidWithMargin",
                      out |-> <<calculateBidWithMargin(inPrice)>>]
    /\ UNCHANGED <<inBlurBid, inOsBid, inPrice>>
    /\ UNCHANGED <<qvars, pvars, xvars>>

CalculateBidWithMarginA3 ==
    /\ calcResult = NoResult
    /\ calcResult' = [fn |-> "calculateBidWithMarginA3",
                      out |-> <<calculateBidWithMarginA3(inPrice, PROFIT_MARGIN)>>]
    /\ UNCHANGED <<inBlurBid, inOsBid, inPrice>>
    /\ UNCHANGED <<qvars, pvars, xvars>>

CalculateBlurAmount ==
    /\ calcResult = NoResult
    /\ calcResult' = [fn |-> "calculateBlurAmount",
                      out |-> <<calculateBlurAmount(inPrice)>>]
    /\ UNCHANGED <<inBlurBid, inOsBid, inPrice>>
    /\ UNCHANGED <<qvars, pvars, xvars>>

CalculateOpenseaAmount ==
    /\ calcResult = NoResult
    /\ calcResult' = [fn |-> "calculateOpenseaAmount",
                      out |-> <<calculateOpenseaAmount(JsNumber(inPrice * 100))>>]
    /\ UNCHANGED <<inBlurBid, inOsBid, inPrice>>
    /\ UNCHANGED <<qvars, pvars, xvars>>

CalculateBidAmount(platform) ==
    /\ calcResult = NoResult
    /\ calcResult' = [fn |-> "calculateBidAmount",
                      out |-> <<calculateBidAmount(platform, inPrice)>>]
    /\ UNCHANGED <<inBlurBid, inOsBid, inPrice>>
    /\ UNCHANGED <<qvars, pvars, xvars>>

\* no calculator is in use
CIdle ==
    /\ inBlurBid = 0
    /\ inOsBid = 0
    /\ inPrice = 0
    /\ calcResult = NoResult

\* the inputs of one calculation
CInit ==
    /\ inBlurBid \in CalcRefs
    /\ inOsBid \in CalcComps
    /\ inPrice \in CalcPrices
    /\ inPrice = 0 \/ (inBlurBid = 0 /\ inOsBid = 0)
    /\ calcResult = NoResult

(* --------------------------- specifications --------------------------- *)

Init == QInit /\ PIdle /\ CIdle /\ XIdle

\* the queue, its callers and the operations' network and file outcomes
QueueNext ==
    \/ \E p \in Platforms, c \in Collections, a \in Amounts : SubmitBid(p, c, a)
    \/ \E p \in Platforms, c \in Collections, n \in CallIds : CancelBid(p, c, n)
    \/ \E id \in CallIds, ok \in BOOLEAN : PlatformReturn(id, ok)
    \/ \E id \in CallIds, ok \in BOOLEAN : SaveReturn(id, ok)

\* the hourly cleanup timer and the clock
LedgerNext ==
    \/ CleanupExpiredBids
    \/ \E ok \in BOOLEAN : CleanupSaveReturn(ok)
    \/ Tick

Next == QueueNext

\* the queue with at most MaxLedgerCalls calls
LedgerQueueNext ==
    \/ \E p \in Platforms, c \in Collections, a \in Amounts :
          Len(calls) < MaxLedgerCalls /\ SubmitBid(p, c, a)
    \/ \E p \in Platforms, c \in Collections, n \in CallIds :
          Len(calls) < MaxLedgerCalls /\ CancelBid(p, c, n)
    \/ \E id \in CallIds, ok \in BOOLEAN : PlatformReturn(id, ok)
    \/ \E id \in CallIds, ok \in BOOLEAN : SaveReturn(id, ok)

\* BidManager's queue
Spec == Init /\ [][Next]_vars

\* BidManager's queue with BidStorage's cleanup timer and the clock
SpecLedger == Init /\ [][LedgerQueueNext \/ LedgerNext]_vars

PollNext ==
    \/ Fire
    \/ \E w \in Workers, ok \in BOOLEAN : KeysReturn(w, ok)
    \/ \E w \in Workers, ok \in BOOLEAN : GetReturn(w, ok)
    \/ \E w \in Workers, ok \in BOOLEAN : OldBidReturn(w, ok)
    \/ \E w \in Workers, res \in {"ok", "fail", "nosig", "signfail", "malformed"} :
          FormatReturn(w, res)
    \/ \E w \in Workers, ok \in BOOLEAN : SubmitReturn(w, ok)
    \/ \E w \in Workers, ok \in BOOLEAN : SetReturn(w, ok)
    \/ \E m \in Markets, c \in Contracts, v \in RawValues : WriteOffer(m, c, v)

InitPoll == QInit /\ PInit /\ CIdle /\ XIdle

\* the live Blur bidder
SpecPoll == InitPoll /\ [][PollNext]_vars

CalcNext ==
    \/ ComputeBidAmount
    \/ CalculateBidWithMargin
    \/ CalculateBidWithMarginA3
    \/ CalculateBlurAmount
    \/ CalculateOpenseaAmount
    \/ \E p \in Platforms : CalculateBidAmount(p)

InitCalc == QInit /\ PIdle /\ CInit /\ XIdle

\* the bid calculators on their inputs
SpecCalc == InitCalc /\ [][CalcNext]_vars

\* the queue and the clock of one run, and the start of the next run
ReloadNext ==
    \/ LedgerQueueNext
    \/ Tick
    \/ LoadBids

\* BidStorage's file written by one run and loaded by the next
SpecReload == Init /\ [][ReloadNext]_vars

MonitorNext ==
    \/ PollFire
    \/ \E th \in BagToSet(polls), res \in {"ok", "fail"} : PollFetchReturn(th, res)
    \/ \E th \in BagToSet(polls), ok \in BOOLEAN : PollGetReturn(th, ok)
    \/ \E th \in BagToSet(polls), ok \in BOOLEAN : PollSetReturn(th, ok)
    \/ \E slug \in EventSlugs, hash \in Hashes : Message(slug, hash)
    \/ \E th \in BagToSet(handlers), ok \in BOOLEAN : HandlerGetReturn(th, ok)
    \/ \E th \in BagToSet(handlers), res \in {"ok", "fail"} :
          HandlerFetchReturn(th, res)
    \/ \E th \in BagToSet(handlers), ok \in BOOLEAN : HandlerSetReturn(th, ok)
    \/ \E slug \in SlugSet, offer \in Hashes \cup {NoOffer} :
          MarketChange(slug, offer)

InitMonitor == QInit /\ PIdle /\ CIdle /\ RIdle /\ TIdle /\ MInit /\ AIdle /\ StIdle

\* the offer monitor's poll callbacks and invalidation handlers
SpecMonitor == InitMonitor /\ [][MonitorNext]_vars

SocketNext ==
    \/ \E i \in 1..Len(sockets) : WsOpen(i)
    \/ \E i \in 1..Len(sockets) : WsError(i)
    \/ \E i \in 1..Len(sockets) : WsClose(i)
    \/ Reconnect
    \/ \E i \in 1..Len(sockets) : Heartbeat(i)

InitSocket == QInit /\ PIdle /\ CIdle /\ RIdle /\ TIdle /\ SInit /\ AIdle /\ StIdle

\* the offer monitor's WebSocket connection
SpecSocket == InitSocket /\ [][SocketNext]_vars

TaskNext ==
    \/ Initialize
    \/ \E c \in TaskCalls : AddTask(c[1], c[2])
    \/ HandlerReturn
    \/ DelayOver
    \/ Cleanup
    \/ MsTick

\* TaskManager
SpecTasks == Init /\ [][TaskNext]_vars

\* the monitor when every fetch succeeds
ConvergeNext ==
    \/ PollFire
    \/ PollLater
    \/ \E th \in BagToSet(polls) : PollFetchReturn(th, "ok")
    \/ \E th \in BagToSet(polls), ok \in BOOLEAN : PollGetReturn(th, ok)
    \/ \E th \in BagToSet(polls), ok \in BOOLEAN : PollSetReturn(th, ok)
    \/ \E slug \in EventSlugs, hash \in Hashes : Message(slug, hash)
    \/ \E th \in BagToSet(handlers), ok \in BOOLEAN : HandlerGetReturn(th, ok)
    \/ \E th \in BagToSet(handlers) : HandlerFetchReturn(th, "ok")
    \/ \E th \in BagToSet(handlers), ok \in BOOLEAN : HandlerSetReturn(th, ok)
    \/ \E slug \in SlugSet, offer \in Hashes \cup {NoOffer} :
          MarketChange(slug, offer)

\* the interval keeps firing, every request returns, and the store's
\* requests do not fail for ever
ConvergeFair ==
    /\ WF_vars(PollFire)
    /\ WF_vars(PollLater)
    /\ WF_vars(\E th \in BagToSet(polls) : PollFetchReturn(th, "ok"))
    /\ WF_vars(\E th \in BagToSet(polls), ok \in BOOLEAN : PollGetReturn(th, ok))
    /\ WF_vars(\E th \in BagToSet(polls), ok \in BOOLEAN : PollSetReturn(th, ok))
    /\ WF_vars(\E th \in BagToSet(handlers), ok \in BOOLEAN :
                  HandlerGetReturn(th, ok))
    /\ WF_vars(\E th \in BagToSet(handlers) : HandlerFetchReturn(th, "ok"))
    /\ WF_vars(\E th \in BagToSet(handlers), ok \in BOOLEAN :
                  HandlerSetReturn(th, ok))
    /\ SF_vars(\E th \in BagToSet(polls) : PollGetReturn(th, TRUE))
    /\ SF_vars(\E th \in BagToSet(polls) : PollSetReturn(th, TRUE))

\* the offer monitor with its interval firing for ever
SpecConverge == InitMonitor /\ [][ConvergeNext]_vars /\ ConvergeFair

StorageNext ==
    \/ \E in \in BidInputs, t0 \in 0..MaxTime : AddBid(in, t0)
    \/ \E in \in BidInputs, nonce \in 1..MaxStorageCalls : UpdateBid(in, nonce)
    \/ \E c \in Collections, p \in Platforms, nonce \in 1..MaxStorageCalls :
          RemoveBid(c, p, nonce)
    \/ \E k \in 1..MaxStorageCalls, ok \in BOOLEAN : StorageSaveReturn(k, ok)
    \/ Tick

InitStorage == StorageInit /\ PIdle /\ CIdle /\ XIdle

\* BidStorage's addBid, updateBid and removeBid called directly
SpecStorage == InitStorage /\ [][StorageNext]_vars

AcceptorNext ==
    \/ \E res \in {"ok", "noid", "fail"} : QuoteReturn(res)
    \/ \E res \in {"success", "nosuccess", "fail"} : AcceptReturn(res)

InitAcceptor == QInit /\ PIdle /\ CIdle /\ RIdle /\ TIdle /\ MIdle /\ AInit /\ StIdle

\* the Blur acceptor's loop over the matching NFTs
SpecAcceptor == InitAcceptor /\ [][AcceptorNext]_vars

(* ------------------------- claims on the queue ------------------------ *)

Running == {i \in CallIds : calls[i].opState = "running"}
Settled == {i \in CallIds : calls[i].opState \in {"completed", "failed"}}

\* C1: at most one enqueued operation is executing at any time, whatever the
\* interleaving of addToQueue callers and operation completions.
C1_OneOperationAtATime == Cardinality(Running) <= 1

\* an operation executes while another waits in the queue and an earlier one
\* has already completed or failed
C1_Witness ==
    /\ Running # {}
    /\ Len(bidQueue) >= 1
    /\ Settled # {}

\* C2: for every (collection, platform) key the ledger holds at most one bid
\* whose status is pending or active.
C2_AtMostOneLiveBidPerKey ==
    \A c \in DOMAIN bids, p \in Platforms :
        Cardinality({k \in 1..Len(bids[c][p]) :
                        bids[c][p][k].status \in {"pending", "active"}}) <= 1

\* C3: no submit is sent to the marketplace for a key whose previous submit
\* succeeded and has not been followed by a cancel for that key.
C3_NoSubmitAfterSubmit == ~doubleSubmit

\* C5: a cancelBid called before a submitBid for the same key has completed
\* or failed before the submit operation starts executing.
C5_CancelBeforeSubmit ==
    \A i, j \in CallIds :
        (/\ i < j
         /\ calls[i].type = "cancel"
         /\ calls[j].type = "submit"
         /\ KeyOf(calls[i]) = KeyOf(calls[j])
         /\ calls[j].opState # "queued")
        => calls[i].opState \in {"completed", "failed"}

\* a cancel that went through its file write, and the later submit for the
\* same key executing after it
C5_Witness ==
    \E i, j \in CallIds :
        /\ i < j
        /\ calls[i].type = "cancel" /\ calls[i].opState = "completed"
        /\ calls[j].type = "submit" /\ calls[j].opState = "running"
        /\ KeyOf(calls[i]) = KeyOf(calls[j])

\* C6: operations start executing in the order in which addToQueue was called.
C6_Fifo == \A k \in 1..Len(startOrder) : startOrder[k] = k

\* three operations have started, the last two from the drain that the first
\* caller began
C6_Witness ==
    /\ Len(startOrder) >= 3
    /\ calls[2].drainer = 1
    /\ calls[3].drainer = 1

\* C7: once an operation has thrown, no caller's promise is rejected and the
\* queue keeps draining: whenever operations wait in the queue one is
\* executing, and the processing flag is set exactly while one is executing.
C7_FailureDoesNotHaltQueue ==
    (\E i \in CallIds : calls[i].opState = "failed")
    => /\ \A i \in CallIds : calls[i].promise # "rejected"
       /\ Len(bidQueue) > 0 => Running # {}
       /\ processingQueue <=> Running # {}

\* an operation failed and one enqueued behind it ran in the same drain
C7_Witness ==
    \E i, j \in CallIds :
        /\ i < j
        /\ calls[i].opState = "failed"
        /\ calls[j].opState = "completed"
        /\ calls[j].drainer = calls[i].drainer

\* C8: the promise returned by addToQueue never stays pending while an
\* operation executes.
C8_EnqueueNeverWaits ==
    \A i \in CallIds : calls[i].promise = "draining" => Running = {}

(* --------------------- claims on the live Blur bidder ----------------- *)

\* worker th is inside submitNewBlurBid for contract c
InFlight(th, c) ==
    th.pc \in {"format", "submit", "set"} /\ Head(th.keys) = c

\* number of format -> sign -> submit sequences in flight for contract c
InFlightCount(c) ==
    (IF InFlight(main, c) THEN 1 ELSE 0) +
    BagCardinality([x \in {y \in BagToSet(ticks) : InFlight(y, c)} |-> ticks[x]])

\* C4: for any contract at most one format -> sign -> submit sequence
\* (submitNewBlurBid) is in flight at any time.
C4_OneSubmissionInFlight == \A c \in Contracts : InFlightCount(c) <= 1

\* C9: a read that returns the same raw string as the previous read of the
\* key (the startup read included, overlapping callbacks included) never
\* triggers an evaluation.
C9_RepeatNeverTriggers == obs.repeat => ~obs.triggered

\* a callback reads an unchanged, non-empty value while another callback is
\* in progress
C9_Witness ==
    /\ obs.repeat
    /\ ~obs.empty
    /\ ~obs.startup
    /\ BagCardinality(ticks) >= 2

C12_CapOrOutbidFloored ==
    LET maxBid == inBlurBid - A5_PROFIT_MARGIN
        Floor(x) == (x \div RoundUnits) * RoundUnits
    IN  (calcResult.fn = "computeBidAmount" /\ maxBid > 0)
        => calcResult.out = <<IF inOsBid >= maxBid THEN Floor(maxBid)
                              ELSE Floor(inOsBid + MIN_INCREMENT)>>

\* C13: whenever reference - margin <= 0, computeBidAmount throws and
\* calculateBidWithMargin (both versions) returns 0, for every competitor
\* price.
C13_NoBidWithoutProfit ==
    /\ (calcResult.fn = "computeBidAmount" /\ inBlurBid - A5_PROFIT_MARGIN <= 0)
       => calcResult.out = Throw
    /\ (/\ calcResult.fn \in {"calculateBidWithMargin", "calculateBidWithMarginA3"}
        /\ inPrice - PROFIT_MARGIN <= 0)
       => calcResult.out = <<0>>

\* computeBidAmount was applied to a reference price equal to the margin and
\* a positive competitor price
C13_Witness ==
    /\ calcResult.fn = "computeBidAmount"
    /\ inBlurBid = A5_PROFIT_MARGIN
    /\ inOsBid > 0
    /\ calcResult.out = Throw

\* C14: an amount returned by computeBidAmount or calculateBidWithMargin never
\* exceeds reference - margin.
C14_NeverAboveCeiling ==
    /\ (calcResult.fn = "computeBidAmount" /\ calcResult.out # Throw)
       => calcResult.out[1] <= inBlurBid - A5_PROFIT_MARGIN
    /\ (/\ calcResult.fn \in {"calculateBidWithMargin", "calculateBidWithMarginA3"}
        /\ calcResult.out[1] > 0)
       => calcResult.out[1] <= inPrice - PROFIT_MARGIN

\* C15: whenever p - margin > 0, calculateBidWithMargin(p) and
\* calculateBlurAmount(p) return floor(p - margin, 0.01): a multiple of 0.01
\* that is <= p - margin and > p - margin - 0.01.
C15_ExactFloorToCent ==
    (/\ calcResult.fn \in {"calculateBidWithMargin", "calculateBidWithMarginA3",
                           "calculateBlurAmount"}
     /\ inPrice - PROFIT_MARGIN > 0)
    => /\ calcResult.out[1] % CentUnits = 0
       /\ calcResult.out[1] <= inPrice - PROFIT_MARGIN
       /\ calcResult.out[1] > inPrice - PROFIT_MARGIN - CentUnits

(* ------------------ further claims on the live Blur bidder ------------ *)

C16_NoBidCancels ==
    (obs.noBid /\ obs.contract \in DOMAIN bidKey) => obs.pcAfter = "cancel"

\* C17: when the calculated bid equals the value of Bid:Blur:<contract>, no
\* submission starts and the value is left unchanged.
C17_TieIssuesNothing ==
    [][\A w \in Workers :
          (/\ w.th.pc = "oldbid"
           /\ Lookup(bidKey, Head(w.th.keys)) = <<w.th.bid>>
           /\ OldBidReturn(w, TRUE))
          => /\ bidKey' = bidKey
             /\ \A c \in Contracts : InFlightCount(c)' <= InFlightCount(c)]_vars

\* a worker found its calculated bid equal to the recorded one, and nothing is
\* in flight for the contract
C17_Witness ==
    /\ obs.tie
    /\ \A c \in Contracts : c \in DOMAIN bidKey /\ InFlightCount(c) = 0

\* C18: Bid:Blur:<contract> changes only in the step that ends a submission
\* whose format, sign and submit steps succeeded, and a failing step leaves
\* it as it was.
C18_LedgerWrittenOnlyAfterSuccess ==
    [][/\ bidKey' # bidKey
          => \E w \in Workers :
                /\ w.th.pc = "set"
                /\ w.th.steps = {"format", "sign", "submit"}
                /\ bidKey' = MapSet(bidKey, Head(w.th.keys), ToFixed2(w.th.bid))
       /\ \A w \in Workers :
             /\ (\E res \in {"fail", "nosig", "signfail", "malformed"} :
                    FormatReturn(w, res)) => bidKey' = bidKey
             /\ SubmitReturn(w, FALSE) => bidKey' = bidKey]_vars

\* a format, sign or submit step failed for a contract that has no recorded bid
C18_Witness ==
    /\ obs.failedStep
    /\ obs.contract \in Contracts
    /\ obs.contract \notin DOMAIN bidKey

\* C20: a failure while a callback handles one key never leaves other keys of
\* the same tick unexamined.
C20_FailureSkipsNoKey == ~(obs.abort /\ ~obs.startup /\ obs.left)

\* C24: when the calculated bid differs from the value of Bid:Blur:<contract>
\* and a prior bid is recorded, the replacement submission starts at once: it
\* never waits on a cancellation.
C24_ReplacementAlwaysAttempted == obs.replaces => obs.pcAfter = "format"

\* a callback found a recorded bid that differs from its calculated bid
C24_Witness ==
    /\ obs.replaces
    /\ ~obs.tie
    /\ obs.contract \in DOMAIN bidKey
    /\ InFlightCount(obs.contract) >= 1

\* the price the key <<market, c>> reports, NaN if it has none
LatestPrice(market, c) ==
    IF <<market, c>> \in DOMAIN store THEN Parse(market, Trim(store[<<market, c>>]))
    ELSE NaN

HighestPrice(c) ==
    IF LatestPrice("opensea", c) >= LatestPrice("blur", c)
    THEN LatestPrice("opensea", c) ELSE LatestPrice("blur", c)

\* every offer key holds a value, the one the bidder has recorded for it
AllSeen ==
    \A k \in DOMAIN store :
        store[k] # <<>> /\ Lookup(lastSeen, k) = <<Trim(store[k])>>

OtherMarket(market) == IF market = "opensea" THEN "blur" ELSE "opensea"

\* C29: when the bid recorded for a contract is the one calculated from the
\* latest price of one feed, and a change of the other feed has been
\* processed up to the recording of its submission, leaving no change to
\* process (startup is over, no callback is in progress, every key holds its
\* recorded value), the recorded bid is
\* max(OpenSea price, Blur price) - PROFIT_MARGIN floored to 0.01.
C29_BidTracksHighestPrice ==
    [][\A w \in Workers :
          LET c == Head(w.th.keys)
          IN  (/\ w.th.pc = "set"
               /\ SetReturn(w, TRUE)
               /\ Lookup(bidKey, c) =
                     <<calculateBidWithMargin(LatestPrice(OtherMarket(w.th.market), c))>>
               /\ main'.pc = "done"
               /\ ticks' = EmptyBag
               /\ AllSeen')
              => bidKey'[c] =
                    ((HighestPrice(c)' - PROFIT_MARGIN) \div CentUnits) * CentUnits]_vars

(* -------------------- further claims on the ledger -------------------- *)

\* C19: the bid stored by a completed submitBid operation is returned by
\* getActiveBids as long as it is in the ledger and has not expired.
C19_SubmittedBidIsActive ==
    \A i \in CallIds :
        LET c == calls[i]
            stored == GetBids(bids, c.collection, c.platform)
            active == GetActiveBids(bids, c.collection, c.platform, now)
        IN  (/\ c.type = "submit"
             /\ c.opState = "completed"
             /\ \E k \in 1..Len(stored) :
                   stored[k].nonce = i /\ stored[k].expirationTime > now)
            => \E k \in 1..Len(active) : active[k].nonce = i

\* C26: a submit operation is never in progress (sent to the marketplace or
\* writing the ledger) while the ledger holds an unexpired pending or active
\* bid of an earlier call for the same key: such an operation is dropped.
C26_DuplicateSubmitDropped ==
    \A i \in CallIds :
        LET c == calls[i]
            stored == GetBids(bids, c.collection, c.platform)
        IN  (c.type = "submit" /\ c.opState = "running")
            => ~\E k \in 1..Len(stored) :
                   /\ stored[k].nonce # i
                   /\ stored[k].expirationTime > now
                   /\ stored[k].status \in {"pending", "active"}

C27_ReloadEqualsSaved ==
    reloaded # NoReload => reloaded[1].loaded = reloaded[1].saved

(* ------------------------ claims on TaskManager ----------------------- *)

\* the sequences of values a task's status may have gone through
ValidTrails ==
    {<<"pending">>, <<"pending", "running">>,
     <<"pending", "running", "completed">>, <<"pending", "running", "failed">>}

TaskRefs == 1..Len(heap)

\* C25: after a single initialize every task's status moves only
\* pending -> running -> completed or failed, at most one task is running,
\* and after a task has failed the processing loop is still going as long
\* as the manager runs.
C25_TaskLifecycle ==
    /\ \A s \in TaskRefs : heap[s].trail \in ValidTrails
    /\ Cardinality({s \in TaskRefs : Status(heap[s]) = "running"}) <= 1
    /\ (running /\ \E s \in TaskRefs : Status(heap[s]) = "failed")
       => loop \in {"exec", "sleep"}

\* a task has failed, a task added after it has been completed and a third
\* one is being executed
C25_Witness ==
    /\ running
    /\ \E s, o \in TaskRefs :
          /\ s < o
          /\ Status(heap[s]) = "failed"
          /\ Status(heap[o]) = "completed"
    /\ \E s \in TaskRefs : Status(heap[s]) = "running"

\* C30: the task that starts executing is a pending task of the map whose
\* priority number is minimal among the pending tasks and, among those of
\* equal priority, the one added earliest.
C30_PriorityOrder ==
    [][\A s \in TaskRefs :
          (Status(heap[s]) = "pending" /\ Status(heap'[s]) # "pending")
          => LET pend == PendingTasks(tasks, heap)
             IN  /\ \E k \in 1..Len(pend) : pend[k].ref = s
                 /\ \A k \in 1..Len(pend) :
                       \/ heap[pend[k].ref].priority > heap[s].priority
                       \/ /\ heap[pend[k].ref].priority = heap[s].priority
                          /\ pend[k].ref >= s]_vars

\* the task being executed was added after a pending task of lower priority
\* and before a pending task of the same priority
C30_Witness ==
    /\ loop = "exec"
    /\ \E k, j \in 1..Len(tasks) :
          /\ Status(heap[tasks[k].ref]) = "pending"
          /\ Status(heap[tasks[j].ref]) = "pending"
          /\ tasks[k].ref < current[1]
          /\ heap[tasks[k].ref].priority > heap[current[1]].priority
          /\ tasks[j].ref > current[1]
          /\ heap[tasks[j].ref].priority = heap[current[1]].priority

(* -------------------- claims on the OpenSea offer monitor ------------- *)

\* C21: a poll callback or an invalidation handler whose fetch of the
\* collection's top offer failed leaves the collection's store entry as it was.
C21_FailedFetchLeavesStore ==
    (mobs.kind \in {"poll", "handler"} /\ mobs.fetchFailed) => ~mobs.changed

\* C22: an invalidation handler starts a fetch if and only if its message
\* names a tracked collection whose store entry holds an offer with the
\* message's order hash, and only such a handler writes the store.
C22_RefetchOnlyOnMatch ==
    /\ mobs.kind = "event" => (mobs.fetchStarted <=> mobs.matched)
    /\ mobs.kind = "handler" => mobs.matched
    /\ \A th \in BagToSet(handlers) :
          /\ th.slug \in SlugSet
          /\ th.pc \in {"fetch", "set"} => th.seen = th.hash

\* a handler has rewritten the entry that held the invalidated order, once
\* every message has been received
C22_Witness ==
    /\ mobs.kind = "handler"
    /\ mobs.wrote
    /\ mobs.changed
    /\ mobs.stored \in Hashes
    /\ events = MaxEvents

LiveSockets == {i \in 1..Len(sockets) : sockets[i].state \in {"connecting", "open"}}

\* C23: at any time there is exactly one of: a live connection, a scheduled
\* reconnect; a heartbeat interval runs only for an open connection, at most
\* one runs, and every open connection has its heartbeat interval and has
\* joined every collection topic.
C23_OneConnectionOneKeepalive ==
    /\ Cardinality(LiveSockets) + reconnects = 1
    /\ Cardinality({i \in 1..Len(sockets) : sockets[i].heartbeat}) <= 1
    /\ \A i \in 1..Len(sockets) :
          /\ sockets[i].heartbeat => sockets[i].state = "open"
          /\ sockets[i].state = "open"
             => sockets[i].heartbeat /\ sockets[i].joined = SlugSet

\* a connection failed before its open, its successor was open and has
\* closed, and the third one is open and has sent heartbeats
C23_Witness ==
    /\ Len(sockets) = 3
    /\ sockets[1].state = "closed" /\ sockets[1].joined = {}
    /\ sockets[2].state = "closed" /\ sockets[2].joined = SlugSet
    /\ sockets[3].state = "open"
    /\ beats >= 1

(* --------------------- further claims on the queue -------------------- *)

\* the operations' requests all return: every operation terminates
Terminating ==
    /\ WF_vars(\E id \in CallIds, ok \in BOOLEAN : PlatformReturn(id, ok))
    /\ WF_vars(\E id \in CallIds, ok \in BOOLEAN : SaveReturn(id, ok))

\* BidManager's queue with at most MaxLedgerCalls calls, when every operation
\* terminates
SpecTerminating == Init /\ [][LedgerQueueNext]_vars /\ Terminating

\* C31: for as long as an executing operation has not completed, no operation
\* enqueued after it starts executing, the operations behind it stay in the
\* queue and the processing flag stays set.
C31_HungOperationStallsQueue ==
    [][\A i \in CallIds :
          (calls[i].opState = "running" /\ calls'[i].opState = "running")
          => /\ startOrder' = startOrder
             /\ processingQueue /\ processingQueue'
             /\ \A j \in CallIds :
                   calls[j].opState = "queued" => calls'[j].opState = "queued"
             /\ \A k \in 1..Len(bidQueue) : bidQueue'[k] = bidQueue[k]]_vars

\* an operation waits for its marketplace request while two operations
\* enqueued after it wait in the queue
C31_Witness ==
    \E i \in Running :
        /\ calls[i].pc = "platform"
        /\ Len(bidQueue) = 2
        /\ \A k \in 1..Len(bidQueue) : bidQueue[k] > i
        /\ processingQueue

Idle == bidQueue = <<>> /\ ~processingQueue

\* the operations that have started exactly once
StartedOnce ==
    {i \in CallIds :
        Cardinality({k \in 1..Len(startOrder) : startOrder[k] = i}) = 1}

\* C33: when every operation terminates, every operation passed to addToQueue
\* eventually has run, having started exactly once, and whenever all the
\* operations passed so far have run the queue is idle (empty list, flag
\* false), for every interleaving of the callers and the completions.
C33_EveryOperationRunsOnce ==
    /\ [](CallIds = Settled => Idle)
    /\ []<>(CallIds = Settled /\ CallIds = StartedOnce)

\* every caller has called, the first found the queue idle and the others
\* found it busy, and every operation has run, one of them failing
C33_Witness ==
    /\ Len(calls) = MaxLedgerCalls
    /\ CallIds = Settled
    /\ \A i \in CallIds : calls[i].drainer = 1
    /\ \E i \in CallIds : calls[i].opState = "failed"
    /\ Idle

(* ---------------------- claims on the Blur acceptor ------------------- *)

\* C32: quotes are requested only for matching NFTs with a fee rate; every
\* accept call sends the quote of the request made just before it, which no
\* earlier accept call has sent; a failed quote or a failed accept is
\* followed by another quote request for the same NFT, whatever the number
\* of attempts made; and the loop leaves an NFT only when an accept call has
\* returned success.
C32_RetryUntilAccepted ==
    [][acceptor' # acceptor =>
          /\ acceptor'.pc \in {"quote", "accept"}
             => HasFeeRate(acceptor'.nfts[acceptor'.i])
          /\ acceptor'.pc = "accept"
             => /\ acceptor.pc = "quote"
                /\ acceptor'.quoteId = acceptor.quotes
                /\ \A k \in 1..Len(acceptor.sent) :
                      acceptor.sent[k] # acceptor'.quoteId
          /\ acceptor'.sent # acceptor.sent
             => acceptor'.sent = Append(acceptor.sent, acceptor.quotes)
          /\ acceptor'.last \in {"quoteFailed", "acceptFailed"}
             => /\ acceptor'.pc = "quote"
                /\ acceptor'.i = acceptor.i
                /\ acceptor'.attempt = acceptor.attempt + 1
                /\ acceptor'.quotes = acceptor.quotes + 1
          /\ acceptor'.i # acceptor.i
             => acceptor.pc = "accept" /\ acceptor'.last = "accepted"]_vars

\* for the first NFT a quote failed, then an accept failed, then an accept
\* succeeded, and the loop has requested a quote for the second NFT
C32_Witness ==
    /\ acceptor.i = 2
    /\ acceptor.pc = "quote"
    /\ acceptor.sent = <<2, 3>>
    /\ acceptor.quotes = 4
    /\ acceptor.last = "accepted"

(* ---------------- further claims on the OpenSea offer monitor --------- *)

\* the order hash of a stored value: none for a missing key, for '' and for
\* a value that is no JSON
HashOf(v) == IF v \in {Nil, Empty, Unparsable} THEN NoOffer ELSE v

\* the poll callback th is at redisClient.set after this step
SetSent(th) == polls' = Replaced(polls, th, [th EXCEPT !.pc = "set"])

\* C34: when a poll callback has fetched a collection's top offer and read
\* the collection's key, it goes on to write the key if and only if the
\* fetched offer's order hash (none if there is no offer) differs from the
\* order hash of the value read (none if the key is missing, empty or
\* unparsable); otherwise it moves to the next collection, and the key is
\* written by no other step of a poll callback.
C34_PollWritesIffHashDiffers ==
    [][/\ \A th \in BagToSet(polls) :
             (PollGetReturn(th, TRUE) /\ ~th.failed)
             => /\ SetSent(th)
                   <=> th.offer # HashOf(offerKey[TrackedSlugs[th.idx]])
                /\ offerKey' = offerKey
       /\ (offerKey' # offerKey /\ handlers' = handlers)
          => \E th \in BagToSet(polls) : PollSetReturn(th, TRUE)]_vars

\* a poll callback found the stored hash equal to the fetched one and wrote
\* nothing, after an earlier write by a poll callback
C34_Witness ==
    /\ mobs.kind = "poll" /\ mobs.wrote
    /\ polled = MaxPolls
    /\ \E th \in BagToSet(polls) :
          /\ th.pc = "get"
          /\ ~th.failed
          /\ th.offer \in Hashes
          /\ th.offer = offerKey[TrackedSlugs[th.idx]]

\* every tracked collection's key holds the marketplace's top offer, or no
\* offer if there is none
Converged == \A slug \in SlugSet : HashOf(offerKey[slug]) = topOffer[slug]

\* C35: when every fetch and every store request succeeds, then once the
\* marketplace's top offers have stopped changing, whatever the interleaving
\* of the overlapping poll callbacks and invalidation handlers, from some
\* time on every key holds its collection's current top offer for ever.
C35_StoreConverges == <>[]Converged

\* the top offers have stopped changing, every callback and handler has
\* ended, and the last write, by a poll callback, replaced another offer by
\* the current one
C35_Witness ==
    /\ changes = MaxChanges
    /\ events = MaxEvents
    /\ polled = MaxPolls
    /\ polls = EmptyBag /\ handlers = EmptyBag
    /\ mobs.kind = "poll" /\ mobs.changed /\ mobs.stored \in Hashes
    /\ Converged
    /\ \E slug \in SlugSet : topOffer[slug] \in Hashes

(* --------------------- claims on BidStorage's calls ------------------- *)

\* the bid's collection is no address, its platform is unknown, its amount
\* is not positive or lies outside the platform's range, or it has expired
FailsValidation(bid, t) ==
    \/ bid.collection \notin Collections
    \/ bid.platform \notin Platforms
    \/ bid.amount <= 0
    \/ bid.amount < MinBidAmount
    \/ bid.amount > MaxBidAmount
    \/ bid.expirationTime <= t

\* C36: an addBid call whose bid fails validation throws, starts no write
\* and leaves the in-memory ledger and the storage file as they were.
C36_InvalidBidStoresNothing ==
    [][(/\ storage'.n = storage.n + 1
        /\ storage'.last.method = "addBid"
        /\ FailsValidation(storage'.last.bid[1], now))
       => /\ storage'.last.event = "threw"
          /\ storage'.saves = storage.saves
          /\ bids' = bids
          /\ storageFile' = storageFile]_vars

\* addBid has thrown for a bid that had expired when it was added, with a
\* bid stored before it
C36_Witness ==
    /\ storage.last.method = "addBid"
    /\ storage.last.event = "threw"
    /\ storage.last.bid # <<>>
    /\ storage.last.bid[1].expirationTime <= now
    /\ storage.last.bid[1].amount = 1
    /\ storage.last.bid[1].collection = "c1"
    /\ storage.last.bid[1].platform = "blur"
    /\ DOMAIN bids # {}

\* C37: whenever a call of addBid, updateBid or removeBid has returned or
\* thrown and no call is in progress, the in-memory bid map equals the
\* content of the storage file.
C37_MemoryEqualsFile ==
    (storage.n > 0 /\ storage.saves = <<>>) => storageFile = <<bids>>

(* ------------------- submitBid and the marketplaces ------------------- *)

\* the NftBid that the operation of submit call i creates and passes to
\* submitPlatformBid
SubmittedBid(i) ==
    NftBid(calls[i].collection, calls[i].platform, calls[i].amount,
           calls[i].nonce, now)

\* C38: a bid that submitBid's operation has handed to submitPlatformBid
\* (the marketplace request is in flight) passes NftBid.validate; in
\* particular its amount lies within [minBidAmount, maxBidAmount].
C38_SentBidsAreValid ==
    \A i \in CallIds :
        (calls[i].type = "submit" /\ calls[i].pc = "platform")
            => Validate(SubmittedBid(i), now)

(* ------------------------ addTask and task ids ------------------------ *)

\* the task object `ref` is a value of the task map m
Mapped(m, ref) == \E k \in 1..Len(m) : m[k].ref = ref

\* C39: an addTask call never removes or replaces an earlier task that is
\* still pending: a pending task that is in the task map is still in the
\* map after the call.
C39_AddTaskKeepsPendingTasks ==
    [][Len(heap') = Len(heap) + 1
       => \A ref \in 1..Len(heap) :
              (Status(heap[ref]) = "pending" /\ Mapped(tasks, ref))
                  => Mapped(tasks', ref)]_vars

(* ------------------ the BidManager amount calculators ----------------- *)

\* C40: calculateOpenseaAmount(currentBid) returns the number
\* currentBid - bidDeduction + outbidAmount, and the totalCost returned by
\* calculateBidAmount is the number amount + gasCost.
C40_AmountsAreNumericSums ==
    /\ calcResult.fn = "calculateOpenseaAmount"
       => calcResult.out[1] =
              JsNumber(inPrice * 100
                       - NumberOf(ConfigBid.opensea.bidDeduction)
                       + NumberOf(ConfigBid.opensea.outbidAmount))
    /\ calcResult.fn = "calculateBidAmount"
       => /\ calcResult.out[1].totalCost.type = "number"
          /\ calcResult.out[1].totalCost.val =
                 NumberOf(calcResult.out[1].amount)
                 + NumberOf(calcResult.out[1].gasCost)

====
